---------------------------- MODULE Spec2Model ----------------------------
(***************************************************************************)
(* Container-scheduling benchmark: node resource accounting, the three     *)
(* placement policies (BinPack, Spread, Adaptive) and the callers that     *)
(* drive them.                                                             *)
(*                                                                         *)
(* Numbers.  The Go code computes in float64.  The model computes in       *)
(* exact integers:                                                         *)
(*   - requests, capacities and usage are in the code's own units (cores,  *)
(*     MiB, Mbps, IOPS);                                                   *)
(*   - a ratio x/total is an integer number of 1/RatioDen (every request   *)
(*     and capacity of the model divides evenly, see RatiosExact);         *)
(*   - a utilization is an integer number of 1/UtilDen, UtilDen = 4 *      *)
(*     RatioDen;                                                           *)
(*   - a score is an integer number of 1/ScoreDen;                         *)
(*   - time is in whole minutes.                                           *)
(***************************************************************************)
EXTENDS Integers, Sequences, FiniteSets, TLC

VARIABLES
    nodes,      \* the caller's node list: a sequence of Node records
    sched,      \* the AdaptiveScheduler's fields
    now,        \* wall clock, minutes
    ops,        \* number of state-changing calls made so far
    last,       \* what the last call was and what it returned
    heap,       \* backing arrays of the nodes' container slices
    placer,     \* the scheduleContainers goroutine: position and locals
    reaper,     \* the cleanupContainers goroutine: position and locals
    metrics,    \* the MetricsCollector's fields
    bench       \* Benchmark.Run: its position, and stopChan

\* the state of the sequential callers, and of the two goroutines
callVars == <<sched, now, ops, last>>
runVars == <<heap, placer, reaper, metrics, bench>>

vars ==
    <<nodes, sched, now, ops, last, heap, placer, reaper, metrics, bench>>

---------------------------------------------------------------------------
(* Bounds of the model *)

\* node operations and Adaptive Schedule calls in one behaviour
MaxOps == 2

---------------------------------------------------------------------------
(* Units *)

RatioDen == 80
UtilDen == 4 * RatioDen
WeightDen == 9000
ScoreDen == 10 * RatioDen * WeightDen

\* x / total as a number of 1/RatioDen
Ratio(x, total) == (x * RatioDen) \div total

---------------------------------------------------------------------------
(* pkg/container *)

NewContainer(id, containerType, cpuReq, memReq, netReq, ioReq) ==
    [id |-> id, containerType |-> containerType,
     cpuRequest |-> cpuReq, memoryRequest |-> memReq,
     networkRequest |-> netReq, ioRequest |-> ioReq]

CPUIntensive(c) == c.cpuRequest > 2
MemoryIntensive(c) == c.memoryRequest > 2048
NetworkIntensive(c) == c.networkRequest > 500
IOIntensive(c) == c.ioRequest > 5000

---------------------------------------------------------------------------
(* pkg/node *)

NewNode(id, cpu, memory, network, io, t) ==
    [id |-> id,
     totalCPU |-> cpu, totalMemory |-> memory,
     totalNetwork |-> network, totalIO |-> io,
     usedCPU |-> 0, usedMemory |-> 0, usedNetwork |-> 0, usedIO |-> 0,
     containers |-> <<>>,
     creationTime |-> t,
     loadHistory |-> <<>>,
     healthScore |-> ScoreDen]

AvailableCPU(n) == n.totalCPU - n.usedCPU
AvailableMemory(n) == n.totalMemory - n.usedMemory
AvailableNetwork(n) == n.totalNetwork - n.usedNetwork
AvailableIO(n) == n.totalIO - n.usedIO

\* in 1/UtilDen
Utilization(n) ==
    LET cpuUtil == Ratio(n.usedCPU, n.totalCPU)
        memUtil == Ratio(n.usedMemory, n.totalMemory)
        netUtil == Ratio(n.usedNetwork, n.totalNetwork)
        ioUtil == Ratio(n.usedIO, n.totalIO)
    IN  cpuUtil + memUtil + netUtil + ioUtil

CanFit(n, c) ==
    /\ c.cpuRequest <= AvailableCPU(n)
    /\ c.memoryRequest <= AvailableMemory(n)
    /\ c.networkRequest <= AvailableNetwork(n)
    /\ c.ioRequest <= AvailableIO(n)

LoadHistoryCap == 10

\* PushLoad dropping the newest entry of a full history
PushLoadKeepsOldest(n) ==
    LET h == Append(n.loadHistory, Utilization(n))
    IN  [n EXCEPT !.loadHistory =
            IF Len(h) > LoadHistoryCap THEN SubSeq(h, 1, LoadHistoryCap) ELSE h]

\* append(n.loadHistory, n.Utilization()), keeping the last 10 entries
PushLoad(n) ==
    LET h == Append(n.loadHistory, Utilization(n))
    IN  [n EXCEPT !.loadHistory =
            IF Len(h) > LoadHistoryCap THEN Tail(h) ELSE h]

\* the node after AddContainer(c) returned true
AddContainerOk(n, c) ==
    PushLoad([n EXCEPT !.usedCPU = @ + c.cpuRequest,
                       !.usedMemory = @ + c.memoryRequest,
                       !.usedNetwork = @ + c.networkRequest,
                       !.usedIO = @ + c.ioRequest,
                       !.containers = Append(@, c)])

\* AddContainerCall with the load sample taken before the fit check
AddContainerCallSamplesFirst(n, c) ==
    IF ~CanFit(n, c) THEN <<FALSE, PushLoad(n)>>
    ELSE <<TRUE, AddContainerOk(n, c)>>

\* <<return value, node after the call>>
AddContainerCall(n, c) ==
    IF ~CanFit(n, c) THEN <<FALSE, n>> ELSE <<TRUE, AddContainerOk(n, c)>>

\* FirstIndexOf finding the last container with this id
LastIndexOf(cs, containerID) ==
    IF \E i \in 1..Len(cs) : cs[i].id = containerID
    THEN CHOOSE i \in 1..Len(cs) :
            /\ cs[i].id = containerID
            /\ \A j \in (i + 1)..Len(cs) : cs[j].id # containerID
    ELSE 0

\* index of the first container with this id, 0 when there is none
FirstIndexOf(cs, containerID) ==
    IF \E i \in 1..Len(cs) : cs[i].id = containerID
    THEN CHOOSE i \in 1..Len(cs) :
            /\ cs[i].id = containerID
            /\ \A j \in 1..(i - 1) : cs[j].id # containerID
    ELSE 0

\* append(s[:i], s[i+1:]...)
RemoveAt(s, i) == SubSeq(s, 1, i - 1) \o SubSeq(s, i + 1, Len(s))

\* RemoveContainerCall without the usedIO decrement
RemoveContainerCallKeepsIO(n, containerID) ==
    LET i == FirstIndexOf(n.containers, containerID)
    IN  IF i = 0 THEN <<FALSE, n>>
        ELSE LET c == n.containers[i]
             IN  <<TRUE,
                   PushLoad([n EXCEPT !.usedCPU = @ - c.cpuRequest,
                                      !.usedMemory = @ - c.memoryRequest,
                                      !.usedNetwork = @ - c.networkRequest,
                                      !.containers = RemoveAt(@, i)])>>

\* <<return value, node after the call>>
RemoveContainerCall(n, containerID) ==
    LET i == FirstIndexOf(n.containers, containerID)
    IN  IF i = 0 THEN <<FALSE, n>>
        ELSE LET c == n.containers[i]
             IN  <<TRUE,
                   PushLoad([n EXCEPT !.usedCPU = @ - c.cpuRequest,
                                      !.usedMemory = @ - c.memoryRequest,
                                      !.usedNetwork = @ - c.networkRequest,
                                      !.usedIO = @ - c.ioRequest,
                                      !.containers = RemoveAt(@, i)])>>

ContainerCount(n) == Len(n.containers)

\* score in 1/ScoreDen
UpdateHealthScore(n, score) ==
    [n EXCEPT !.healthScore =
        (IF 0 >= (IF ScoreDen <= score THEN ScoreDen ELSE score) THEN 0
         ELSE IF ScoreDen <= score THEN ScoreDen ELSE score)]

---------------------------------------------------------------------------
(* sort.Slice *)

\* The candidate slice holds node pointers; the model holds their indices
\* into the caller's node list.

Min(a, b) == IF a <= b THEN a ELSE b
Max(a, b) == IF a >= b THEN a ELSE b

RECURSIVE InsertSorted(_, _, _)
\* the inner loop of insertion sort: x moves left past every element it is
\* strictly less than
InsertSorted(s, x, less) ==
    IF s = <<>> \/ ~less[x][s[Len(s)]]
    THEN Append(s, x)
    ELSE Append(InsertSorted(SubSeq(s, 1, Len(s) - 1), x, less), s[Len(s)])

RECURSIVE InsertionSort(_, _)
InsertionSort(s, less) ==
    IF Len(s) <= 1 THEN s
    ELSE InsertSorted(InsertionSort(SubSeq(s, 1, Len(s) - 1), less),
                      s[Len(s)], less)

\* slices of at most this many elements are insertion sorted
InsertionSortMax == 12

SeqWithout(s, x) == SelectSeq(s, LAMBDA y : y # x)

SwapAt(s, i, j) == [s EXCEPT ![i] = s[j], ![j] = s[i]]

\* order2_func: <<a, b, swaps>> with s[a] not after s[b]
order2(s, a, b, less) ==
    IF less[s[b]][s[a]] THEN <<b, a, 1>> ELSE <<a, b, 0>>

\* median_func: <<position of the median of s[a], s[b], s[c], swaps>>
median(s, a, b, c, less) ==
    LET ab == order2(s, a, b, less)
        bc == order2(s, ab[2], c, less)
        ac == order2(s, ab[1], bc[1], less)
    IN  <<ac[2], ab[3] + bc[3] + ac[3]>>

\* choosePivot_func on 8 to 49 elements: the median of the elements at one,
\* two and three quarters, and the number of swaps that took
choosePivot(s, less) ==
    LET q == Len(s) \div 4
    IN  median(s, q + 1, 2 * q + 1, 3 * q + 1, less)

\* partialInsertionSort_func on fewer than 50 elements moves nothing and
\* returns whether s is sorted
partialInsertionSort(s, less) == \A i \in 2..Len(s) : ~less[s[i]][s[i - 1]]

RECURSIVE ScanUp(_, _, _, _)
\* for i <= j && less(i, a) { i++ }, the pivot being at position 1
ScanUp(s, i, j, less) ==
    IF i <= j /\ less[s[i]][s[1]] THEN ScanUp(s, i + 1, j, less) ELSE i

RECURSIVE ScanDown(_, _, _, _)
\* for i <= j && !less(j, a) { j-- }
ScanDown(s, i, j, less) ==
    IF i <= j /\ ~less[s[j]][s[1]] THEN ScanDown(s, i, j - 1, less) ELSE j

RECURSIVE PartitionLoop(_, _, _, _)
\* the loop of partition_func: <<s after it, position of the pivot>>
PartitionLoop(s, i, j, less) ==
    LET i1 == ScanUp(s, i, j, less)
        j1 == ScanDown(s, i1, j, less)
    IN  IF i1 > j1 THEN <<SwapAt(s, j1, 1), j1>>
        ELSE PartitionLoop(SwapAt(s, i1, j1), i1 + 1, j1 - 1, less)

\* partition_func: the pivot goes to the front, the scans swap the elements
\* on the wrong side, the pivot goes between the two sides
partition(s, pivot, less) == PartitionLoop(SwapAt(s, 1, pivot), 2, Len(s), less)

\* The first round of pdqsort_func on 13 to 49 elements: <<s after the
\* partition, position of the pivot>>, the pivot at 0 when s is found sorted
\* and left as it is.
pdqsortRound(s, less) ==
    LET p == choosePivot(s, less)
    IN  IF p[2] = 0 /\ partialInsertionSort(s, less) THEN <<s, 0>>
        ELSE partition(s, p[1], less)

\* The results sort.Slice(s, less) can leave in s.  Up to InsertionSortMax
\* elements the sort is an insertion sort.  Beyond, pdqsort_func partitions
\* s around a pivot; when neither side has more than InsertionSortMax
\* elements, both are insertion sorted and that is the result.  For longer
\* sides the order of equal elements is left open: any element that no other
\* one is less than may come first (the callers read s[0] only, the rest is
\* kept in one order).
SortSlice(s, less) ==
    IF Len(s) <= InsertionSortMax
    THEN {InsertionSort(s, less)}
    ELSE LET round == IF Len(s) <= 2 * InsertionSortMax + 1
                      THEN pdqsortRound(s, less) ELSE <<s, 1>>
             t == round[1]
             mid == round[2]
         IN  IF Len(s) <= 2 * InsertionSortMax + 1 /\ mid = 0 THEN {t}
             ELSE IF /\ Len(s) <= 2 * InsertionSortMax + 1
                     /\ mid - 1 <= InsertionSortMax
                     /\ Len(s) - mid <= InsertionSortMax
             THEN {InsertionSort(SubSeq(t, 1, mid - 1), less) \o <<t[mid]>>
                    \o InsertionSort(SubSeq(t, mid + 1, Len(t)), less)}
             ELSE {<<h>> \o InsertionSort(SeqWithout(s, h), less) :
                    h \in {x \in {s[k] : k \in 1..Len(s)} :
                                \A k \in 1..Len(s) : ~less[s[k]][x]}}

---------------------------------------------------------------------------
(* pkg/scheduler: BinPack and Spread *)

\* FitFilter keeping every node
FitFilterKeepsAll(c, ns) == [i \in 1..Len(ns) |-> i]

\* FitFilter with the loop starting at the second node
FitFilterSkipsFirst(c, ns) ==
    SelectSeq([i \in 1..Len(ns) |-> i], LAMBDA i : i > 1 /\ CanFit(ns[i], c))

\* candidateNodes after the filter loop
FitFilter(c, ns) ==
    SelectSeq([i \in 1..Len(ns) |-> i], LAMBDA i : CanFit(ns[i], c))

\* BinPackLess with the comparison turned around
BinPackLessAscending(ns) ==
    [a \in 1..Len(ns) |-> [b \in 1..Len(ns) |->
        Utilization(ns[a]) < Utilization(ns[b])]]

\* less(i, j) of BinPack's sort: utilization descending
BinPackLess(ns) ==
    [a \in 1..Len(ns) |-> [b \in 1..Len(ns) |->
        Utilization(ns[a]) > Utilization(ns[b])]]

\* SpreadLess with the comparison turned around
SpreadLessDescending(ns) ==
    [a \in 1..Len(ns) |-> [b \in 1..Len(ns) |->
        Utilization(ns[a]) > Utilization(ns[b])]]

\* less(i, j) of Spread's sort: utilization ascending
SpreadLess(ns) ==
    [a \in 1..Len(ns) |-> [b \in 1..Len(ns) |->
        Utilization(ns[a]) < Utilization(ns[b])]]

\* A Schedule result: node is the index of the node returned, 0 for nil;
\* err is TRUE for ErrNoSuitableNode; nodes is the caller's node list as the
\* call leaves it (the sort works on candidateNodes, a slice of its own).
NoSuitableNode(ns) == [node |-> 0, err |-> TRUE, nodes |-> ns]
Chosen(i, ns) == [node |-> i, err |-> FALSE, nodes |-> ns]

\* the results BinPackScheduler.Schedule(c, ns) can return
BinPackSchedule(c, ns) ==
    LET candidateNodes == FitFilter(c, ns)
    IN  IF Len(candidateNodes) = 0 THEN {NoSuitableNode(ns)}
        ELSE {Chosen(sorted[1], ns) :
                sorted \in SortSlice(candidateNodes, BinPackLess(ns))}

\* SpreadSchedule filtering and sorting in the caller's slice
\* (candidateNodes := nodes[:0])
SpreadScheduleInPlace(c, ns) ==
    LET candidateNodes == FitFilter(c, ns)
    IN  IF Len(candidateNodes) = 0 THEN {NoSuitableNode(ns)}
        ELSE {[node |-> sorted[1], err |-> FALSE,
               nodes |-> [k \in 1..Len(ns) |->
                            IF k <= Len(sorted) THEN ns[sorted[k]] ELSE ns[k]]] :
                sorted \in SortSlice(candidateNodes, SpreadLess(ns))}

\* the results SpreadScheduler.Schedule(c, ns) can return
SpreadSchedule(c, ns) ==
    LET candidateNodes == FitFilter(c, ns)
    IN  IF Len(candidateNodes) = 0 THEN {NoSuitableNode(ns)}
        ELSE {Chosen(sorted[1], ns) :
                sorted \in SortSlice(candidateNodes, SpreadLess(ns))}

---------------------------------------------------------------------------
(* pkg/scheduler: Adaptive *)

\* a weight is an exact fraction num/den
Weight(num, den) == [num |-> num, den |-> den]

\* a decimal constant num/den as a number of 1/ScoreDen
Fix(num, den) == (num * ScoreDen) \div den

\* x * num/den, x in 1/ScoreDen
Mul(x, num, den) == (x * num) \div den

MinutesPerDay == 1440

\* make(map[string][]float64)
EmptyMap == [k \in {} |-> <<>>]

NewAdaptiveScheduler(t) ==
    [containerHistory |-> EmptyMap, \* container type -> <<cpu, mem, net, io>>
     nodeHistory |-> EmptyMap,      \* node id -> <<health score>>
     schedulingStartTime |-> t,
     schedulerPhase |-> 0,
     cpuWeight |-> Weight(25, 100),
     memoryWeight |-> Weight(25, 100),
     networkWeight |-> Weight(25, 100),
     ioWeight |-> Weight(25, 100)]

\* updateSchedulerPhase entering the high-load phase at 10 minutes sharp
updateSchedulerPhaseEarlyHighLoad(s, t) ==
    LET elapsedTime == t - s.schedulingStartTime
        phase == IF elapsedTime < 1 THEN 0
                 ELSE IF elapsedTime >= 10 THEN 2
                 ELSE 1
    IN  CASE phase = 0 ->
                [s EXCEPT !.schedulerPhase = 0,
                          !.cpuWeight = Weight(2, 10),
                          !.memoryWeight = Weight(2, 10),
                          !.networkWeight = Weight(3, 10),
                          !.ioWeight = Weight(3, 10)]
          [] phase = 1 ->
                [s EXCEPT !.schedulerPhase = 1,
                          !.cpuWeight = Weight(25, 100),
                          !.memoryWeight = Weight(25, 100),
                          !.networkWeight = Weight(25, 100),
                          !.ioWeight = Weight(25, 100)]
          [] phase = 2 ->
                [s EXCEPT !.schedulerPhase = 2,
                          !.cpuWeight = Weight(3, 10),
                          !.memoryWeight = Weight(3, 10),
                          !.networkWeight = Weight(2, 10),
                          !.ioWeight = Weight(2, 10)]

updateSchedulerPhase(s, t) ==
    LET elapsedTime == t - s.schedulingStartTime
        phase == IF elapsedTime < 1 THEN 0
                 ELSE IF elapsedTime > 10 THEN 2
                 ELSE 1
    IN  CASE phase = 0 ->
                [s EXCEPT !.schedulerPhase = 0,
                          !.cpuWeight = Weight(2, 10),
                          !.memoryWeight = Weight(2, 10),
                          !.networkWeight = Weight(3, 10),
                          !.ioWeight = Weight(3, 10)]
          [] phase = 1 ->
                [s EXCEPT !.schedulerPhase = 1,
                          !.cpuWeight = Weight(25, 100),
                          !.memoryWeight = Weight(25, 100),
                          !.networkWeight = Weight(25, 100),
                          !.ioWeight = Weight(25, 100)]
          [] phase = 2 ->
                [s EXCEPT !.schedulerPhase = 2,
                          !.cpuWeight = Weight(3, 10),
                          !.memoryWeight = Weight(3, 10),
                          !.networkWeight = Weight(2, 10),
                          !.ioWeight = Weight(2, 10)]

RECURSIVE calculateInterferencePenalty(_, _)
\* what the loop over the existing containers subtracts, in 1/ScoreDen
calculateInterferencePenalty(existingContainers, c) ==
    IF existingContainers = <<>> THEN 0
    ELSE LET existing == Head(existingContainers)
         IN  (IF existing.containerType = c.containerType
                THEN Fix(10, 100) ELSE 0)
           + (IF CPUIntensive(existing) /\ CPUIntensive(c)
                THEN Fix(15, 100) ELSE 0)
           + (IF MemoryIntensive(existing) /\ MemoryIntensive(c)
                THEN Fix(15, 100) ELSE 0)
           + (IF IOIntensive(existing) /\ IOIntensive(c)
                THEN Fix(15, 100) ELSE 0)
           + (IF NetworkIntensive(existing) /\ NetworkIntensive(c)
                THEN Fix(15, 100) ELSE 0)
           + calculateInterferencePenalty(Tail(existingContainers), c)

\* calculateInterferenceScore without the floor of 0.1
calculateInterferenceScoreNoFloor(c, n) ==
    Fix(1, 1) - calculateInterferencePenalty(n.containers, c)

\* in 1/ScoreDen
calculateInterferenceScore(c, n) ==
    Max(Fix(1, 10), Fix(1, 1) - calculateInterferencePenalty(n.containers, c))

RECURSIVE IsqrtBetween(_, _, _)
\* the r with lo <= r < hi and r*r <= x < (r+1)*(r+1)
IsqrtBetween(x, lo, hi) ==
    IF hi - lo <= 1 THEN lo
    ELSE LET mid == (lo + hi) \div 2
         IN  IF mid * mid <= x THEN IsqrtBetween(x, mid, hi)
                               ELSE IsqrtBetween(x, lo, mid)

\* floor of the square root, 0 <= x < 2^31
Isqrt(x) == IsqrtBetween(x, 0, 46341)

RECURSIVE SumSeq(_)
SumSeq(s) == IF s = <<>> THEN 0 ELSE Head(s) + SumSeq(Tail(s))

SqrtScale == 25

\* The population standard deviation of loadHistory, in 1/ScoreDen.  With
\* k samples u_1..u_k in 1/UtilDen it is sqrt(k*sum(u^2) - sum(u)^2) /
\* (k * UtilDen); the square root is taken to 1/SqrtScale and rounded down.
LoadVariance(n) ==
    LET h == n.loadHistory
        k == Len(h)
        sum == SumSeq(h)
        sumSq == SumSeq([i \in 1..k |-> h[i] * h[i]])
    IN  IF k < 2 THEN 0
        ELSE ((ScoreDen \div (UtilDen * SqrtScale))
                * Isqrt(SqrtScale * SqrtScale * (k * sumSq - sum * sum)))
             \div k

\* min(1.0, n.UptimeHours()/24.0), in 1/ScoreDen, at time t
UptimeDays(n, t) ==
    Min(MinutesPerDay, t - n.creationTime) * (ScoreDen \div MinutesPerDay)

\* in 1/ScoreDen
calculateNodeHealthScore(s, n, t) ==
    LET baseScore ==
            IF n.id \in DOMAIN s.nodeHistory /\ Len(s.nodeHistory[n.id]) > 0
            THEN s.nodeHistory[n.id][Len(s.nodeHistory[n.id])]
            ELSE Fix(1, 1)
        variancePenalty == Mul(LoadVariance(n), 2, 10)
        uptimeScore == Mul(UptimeDays(n, t), 1, 10)
    IN  baseScore - variancePenalty + uptimeScore

\* a weight as the scoring reads it, in 1/WeightDen
WeightValue(w) == (w.num * WeightDen) \div w.den

\* calculateFitnessScore without the interference part
calculateFitnessScoreNoInterference(s, c, n, t) ==
    LET cpuScore == Ratio(AvailableCPU(n) - c.cpuRequest, n.totalCPU)
        memScore == Ratio(AvailableMemory(n) - c.memoryRequest, n.totalMemory)
        netScore == Ratio(AvailableNetwork(n) - c.networkRequest, n.totalNetwork)
        ioScore == Ratio(AvailableIO(n) - c.ioRequest, n.totalIO)
        baseScore == cpuScore * WeightValue(s.cpuWeight)
                   + memScore * WeightValue(s.memoryWeight)
                   + netScore * WeightValue(s.networkWeight)
                   + ioScore * WeightValue(s.ioWeight)
        interferenceScore == calculateInterferenceScore(c, n)
        nodeHealthScore == calculateNodeHealthScore(s, n, t)
    IN  Mul(baseScore * (ScoreDen \div (RatioDen * WeightDen)), 6, 10)
      + Mul(nodeHealthScore, 2, 10)

\* in 1/ScoreDen
calculateFitnessScore(s, c, n, t) ==
    LET cpuScore == Ratio(AvailableCPU(n) - c.cpuRequest, n.totalCPU)
        memScore == Ratio(AvailableMemory(n) - c.memoryRequest, n.totalMemory)
        netScore == Ratio(AvailableNetwork(n) - c.networkRequest, n.totalNetwork)
        ioScore == Ratio(AvailableIO(n) - c.ioRequest, n.totalIO)
        \* in 1/(RatioDen * WeightDen)
        baseScore == cpuScore * WeightValue(s.cpuWeight)
                   + memScore * WeightValue(s.memoryWeight)
                   + netScore * WeightValue(s.networkWeight)
                   + ioScore * WeightValue(s.ioWeight)
        interferenceScore == calculateInterferenceScore(c, n)
        nodeHealthScore == calculateNodeHealthScore(s, n, t)
    IN  Mul(baseScore * (ScoreDen \div (RatioDen * WeightDen)), 6, 10)
      + Mul(interferenceScore, 2, 10)
      + Mul(nodeHealthScore, 2, 10)

\* adjustWeightsForContainer with the share of a resource scaled by 0.7
adjustWeightsScaledTooFar(s, containerType) ==
    LET history == s.containerHistory[containerType]
        total == history[1] + history[2] + history[3] + history[4]
    IN  IF Len(history) < 4 THEN s
        ELSE IF total > 0
        THEN [s EXCEPT !.cpuWeight = Weight(total + 7 * history[1], 10 * total),
                       !.memoryWeight = Weight(total + 7 * history[2], 10 * total),
                       !.networkWeight = Weight(total + 7 * history[3], 10 * total),
                       !.ioWeight = Weight(total + 7 * history[4], 10 * total)]
        ELSE s

adjustWeightsForContainer(s, containerType) ==
    LET history == s.containerHistory[containerType]
        total == history[1] + history[2] + history[3] + history[4]
    IN  IF Len(history) < 4 THEN s
        ELSE IF total > 0
        THEN [s EXCEPT !.cpuWeight = Weight(total + 6 * history[1], 10 * total),
                       !.memoryWeight = Weight(total + 6 * history[2], 10 * total),
                       !.networkWeight = Weight(total + 6 * history[3], 10 * total),
                       !.ioWeight = Weight(total + 6 * history[4], 10 * total)]
        ELSE s

\* m[key] = value of a Go map
MapPut(m, key, value) ==
    [k \in DOMAIN m \cup {key} |-> IF k = key THEN value ELSE m[k]]

\* recordPlacement keeping the entry a container type has
recordPlacementKeepsFirst(s, c, n) ==
    [s EXCEPT !.containerHistory =
                    IF c.containerType \in DOMAIN @ THEN @
                    ELSE MapPut(@, c.containerType,
                                <<c.cpuRequest, c.memoryRequest,
                                  c.networkRequest, c.ioRequest>>),
              !.nodeHistory = MapPut(@, n.id, <<n.healthScore>>)]

recordPlacement(s, c, n) ==
    [s EXCEPT !.containerHistory =
                    MapPut(@, c.containerType,
                           <<c.cpuRequest, c.memoryRequest,
                             c.networkRequest, c.ioRequest>>),
              !.nodeHistory = MapPut(@, n.id, <<n.healthScore>>)]

\* AdaptiveLess with the comparison turned around
AdaptiveLessAscending(s, c, ns, t) ==
    LET nodeScores == [i \in 1..Len(ns) |-> calculateFitnessScore(s, c, ns[i], t)]
    IN  [a \in 1..Len(ns) |-> [b \in 1..Len(ns) |->
            nodeScores[a] < nodeScores[b]]]

\* less(i, j) of Adaptive's sort: fitness score descending
AdaptiveLess(s, c, ns, t) ==
    LET nodeScores == [i \in 1..Len(ns) |-> calculateFitnessScore(s, c, ns[i], t)]
    IN  [a \in 1..Len(ns) |-> [b \in 1..Len(ns) |->
            nodeScores[a] > nodeScores[b]]]

\* The results AdaptiveScheduler.Schedule(c, ns) can return at time t, each
\* with the scheduler's fields after the call.
AdaptiveSchedule(s, c, ns, t) ==
    LET s1 == updateSchedulerPhase(s, t)
        candidateNodes == FitFilter(c, ns)
        s2 == IF c.containerType \in DOMAIN s1.containerHistory
              THEN adjustWeightsForContainer(s1, c.containerType)
              ELSE s1
    IN  IF Len(candidateNodes) = 0
        THEN {[result |-> NoSuitableNode(ns), sched |-> s1]}
        ELSE {[result |-> Chosen(sorted[1], ns),
               sched |-> recordPlacement(s2, c, ns[sorted[1]])] :
                sorted \in SortSlice(candidateNodes, AdaptiveLess(s1, c, ns, t))}

---------------------------------------------------------------------------
(* Callers: node operations and Schedule calls made one at a time *)

\* the three node shapes of createNodes
SmallNode(id, t) == NewNode(id, 2, 4096, 1000, 5000, t)
MediumNode(id, t) == NewNode(id, 4, 8192, 2000, 10000, t)
LargeNode(id, t) == NewNode(id, 8, 16384, 5000, 20000, t)

\* the node lists the calls are made on
TestNodes == <<MediumNode("N1", 0), MediumNode("N2", 0), SmallNode("N3", 0)>>

\* The containers the calls are made with.  Ids come from the nanosecond
\* clock, so two containers can carry one id ("c1").
TestContainers ==
    {NewContainer("c1", "web", 1, 1024, 250, 1250),
     NewContainer("c1", "web", 2, 2048, 500, 2500),
     NewContainer("c2", "batch", 3, 4096, 1000, 7500),
     NewContainer("c3", "batch", 1, 4096, 250, 1250)}

\* TestNodes after c1, c1 again (the other container of that id) and c1 were
\* placed on N1, N1 and N3
PreplacedNodes ==
    LET web1 == NewContainer("c1", "web", 1, 1024, 250, 1250)
        web2 == NewContainer("c1", "web", 2, 2048, 500, 2500)
    IN  [TestNodes EXCEPT ![1] = AddContainerOk(AddContainerOk(@, web1), web2),
                          ![3] = AddContainerOk(@, web1)]

RECURSIVE Churn(_, _)
\* a node after k rounds of: add web c1, add batch c3, remove c1, remove c3
Churn(n, k) ==
    IF k = 0 THEN n
    ELSE LET a == AddContainerOk(n, NewContainer("c1", "web", 1, 1024, 250, 1250))
             b == AddContainerOk(a, NewContainer("c3", "batch", 1, 4096, 250, 1250))
             c == RemoveContainerCall(b, "c1")[2]
             d == RemoveContainerCall(c, "c3")[2]
         IN  Churn(d, k - 1)

\* one node that went through 12 successful operations and then took c1:
\* its load history is full
SeasonedNodes ==
    <<AddContainerOk(Churn(MediumNode("N1", 0), 3),
                     NewContainer("c1", "web", 1, 1024, 250, 1250))>>

TestNodeLists == {<<>>, TestNodes, PreplacedNodes, SeasonedNodes}

TestIDs == {c.id : c \in TestContainers}

\* the health scores UpdateHealthScore is called with: 0.5
TestHealthScores == {Fix(1, 2)}

\* the instants at which calls are made
TimePoints == {0, 1, 11}

NoContainer == NewContainer("", "", 0, 0, 0, 0)

Call(op, policy, c, id, node, ok) ==
    [op |-> op, policy |-> policy, container |-> c, id |-> id,
     node |-> node, ok |-> ok]

\* a goroutine that was not started
NotStarted == [pc |-> "off"]

\* NewCollector: no event yet.  resourceUtilization is the fraction
\* num/den; timestamps, readings of the wall clock, are left out.
NewCollector ==
    [events |-> <<>>, containersScheduled |-> 0, schedulingFailures |-> 0,
     totalLatency |-> 0,
     resourceUtilization |-> [num |-> 0, den |-> 1],
     utilizationDatapoints |-> 0]

\* a Benchmark on which Run was not called
NotRunning == [pc |-> "off", stopChan |-> "open", elapsed |-> 0]

Init ==
    /\ nodes \in TestNodeLists
    /\ sched = NewAdaptiveScheduler(0)
    /\ now = 0
    /\ ops = 0
    /\ last = Call("", "", NoContainer, "", 0, TRUE)
    /\ heap = <<>>
    /\ placer = NotStarted
    /\ reaper = NotStarted
    /\ metrics = NewCollector
    /\ bench = NotRunning

AddContainer(i, c) ==
    /\ ops < MaxOps
    /\ LET r == AddContainerCall(nodes[i], c)
       IN  /\ nodes' = [nodes EXCEPT ![i] = r[2]]
           /\ last' = Call("AddContainer", "", c, c.id, i, r[1])
    /\ ops' = ops + 1
    /\ UNCHANGED <<sched, now, runVars>>

RemoveContainer(i, containerID) ==
    /\ ops < MaxOps
    /\ LET r == RemoveContainerCall(nodes[i], containerID)
       IN  /\ nodes' = [nodes EXCEPT ![i] = r[2]]
           /\ last' = Call("RemoveContainer", "", NoContainer, containerID, i, r[1])
    /\ ops' = ops + 1
    /\ UNCHANGED <<sched, now, runVars>>

SetHealthScore(i, score) ==
    /\ ops < MaxOps
    /\ nodes' = [nodes EXCEPT ![i] = UpdateHealthScore(@, score)]
    /\ last' = Call("UpdateHealthScore", "", NoContainer, "", i, TRUE)
    /\ ops' = ops + 1
    /\ UNCHANGED <<sched, now, runVars>>

ScheduleBinPack(c) ==
    /\ \E r \in BinPackSchedule(c, nodes) :
            /\ last' = Call("Schedule", "BinPack", c, c.id, r.node, ~r.err)
            /\ nodes' = r.nodes
    /\ UNCHANGED <<sched, now, ops, runVars>>

ScheduleSpread(c) ==
    /\ \E r \in SpreadSchedule(c, nodes) :
            /\ last' = Call("Schedule", "Spread", c, c.id, r.node, ~r.err)
            /\ nodes' = r.nodes
    /\ UNCHANGED <<sched, now, ops, runVars>>

ScheduleAdaptive(c) ==
    /\ ops < MaxOps
    /\ ops' = ops + 1
    /\ \E r \in AdaptiveSchedule(sched, c, nodes, now) :
            /\ last' = Call("Schedule", "Adaptive", c, c.id, r.result.node,
                            ~r.result.err)
            /\ sched' = r.sched
            /\ nodes' = r.result.nodes
    /\ UNCHANGED <<now, runVars>>

Tick ==
    /\ \E t \in TimePoints : t > now /\ now' = t
    /\ last' = Call("Tick", "", NoContainer, "", 0, TRUE)
    /\ UNCHANGED <<nodes, sched, ops, runVars>>

Next ==
    \/ \E i \in 1..Len(nodes), c \in TestContainers : AddContainer(i, c)
    \/ \E i \in 1..Len(nodes), id \in TestIDs : RemoveContainer(i, id)
    \/ \E i \in 1..Len(nodes), score \in TestHealthScores : SetHealthScore(i, score)
    \/ \E c \in TestContainers : ScheduleBinPack(c)
    \/ \E c \in TestContainers : ScheduleSpread(c)
    \/ \E c \in TestContainers : ScheduleAdaptive(c)
    \/ Tick

Spec == Init /\ [][Next]_vars

---------------------------------------------------------------------------
(* Callers: Schedule calls on a list longer than an insertion sort takes *)

\* nodes of a wide list that hold a container
MaxLoaded == 2

WideIDs ==
    <<"N1", "N2", "N3", "N4", "N5", "N6", "N7", "N8", "N9", "N10", "N11",
      "N12", "N13">>

\* InsertionSortMax + 1 medium nodes, the ones in loaded holding one container
WideNodes(loaded) ==
    [k \in 1..(InsertionSortMax + 1) |->
        IF k \in loaded
        THEN AddContainerOk(MediumNode(WideIDs[k], 0),
                            NewContainer("c1", "web", 1, 1024, 250, 1250))
        ELSE MediumNode(WideIDs[k], 0)]

InitWide ==
    /\ nodes \in {WideNodes(loaded) :
                    loaded \in {l \in SUBSET (1..(InsertionSortMax + 1)) :
                                    Cardinality(l) <= MaxLoaded}}
    /\ sched = NewAdaptiveScheduler(0)
    /\ now = 0
    /\ ops = 0
    /\ last = Call("", "", NoContainer, "", 0, TRUE)
    /\ heap = <<>>
    /\ placer = NotStarted
    /\ reaper = NotStarted
    /\ metrics = NewCollector
    /\ bench = NotRunning

NextWide ==
    \/ \E c \in TestContainers : ScheduleBinPack(c)
    \/ \E c \in TestContainers : ScheduleSpread(c)
    \/ \E c \in TestContainers : ScheduleAdaptive(c)

SpecWide == InitWide /\ [][NextWide]_vars

---------------------------------------------------------------------------
(* Callers: Adaptive Schedule calls on two large nodes *)

\* The containers of these calls: a web container that is intensive in
\* nothing, two batch containers that are CPU intensive, a container that
\* asks for memory only, and one that takes all the cores of a large node.
AdaptiveContainers ==
    {NewContainer("c1", "web", 1, 1024, 250, 1250),
     NewContainer("c2", "batch", 3, 4096, 1000, 7500),
     NewContainer("c5", "batch", 3, 1024, 250, 1250),
     NewContainer("c4", "idle", 0, 1024, 0, 0),
     NewContainer("c9", "batch", 8, 1024, 250, 1250)}

\* two large nodes created at t1 and t2, holding the containers of onN1 and
\* onN2 (sequences, placed in order)
RECURSIVE Placed(_, _)
Placed(n, cs) ==
    IF cs = <<>> THEN n ELSE Placed(AddContainerOk(n, Head(cs)), Tail(cs))

LargePair(t1, onN1, t2, onN2) ==
    <<Placed(LargeNode("N1", t1), onN1), Placed(LargeNode("N2", t2), onN2)>>

\* The node lists of these calls.  In the first two N1 holds a CPU intensive
\* batch container and N2 is empty, N1 being a day older in the second.  In
\* the next two N1 holds more CPU and N2 more IO, in two proportions.  In
\* the fifth N1 holds two batch containers, one intensive in everything and
\* one in memory and network.  The last is the third after
\* UpdateHealthScore(0.5) on N2.
AdaptiveNodeLists ==
    {LargePair(0, <<NewContainer("c2", "batch", 3, 4096, 1000, 7500)>>, 0, <<>>),
     LargePair(0 - MinutesPerDay,
               <<NewContainer("c2", "batch", 3, 4096, 1000, 7500)>>, 0, <<>>),
     LargePair(0, <<NewContainer("c6", "cpuhog", 3, 1024, 250, 1250)>>,
               0, <<NewContainer("c7", "iohog", 1, 1024, 250, 7500)>>),
     LargePair(0, <<NewContainer("c6", "cpuhog", 4, 1024, 250, 1250)>>,
               0, <<NewContainer("c7", "iohog", 1, 1024, 250, 7500)>>),
     LargePair(0, <<NewContainer("c2", "batch", 3, 4096, 1000, 7500),
                    NewContainer("c8", "batch", 1, 4096, 1000, 1250)>>,
               0, <<>>),
     [LargePair(0, <<NewContainer("c6", "cpuhog", 3, 1024, 250, 1250)>>,
                0, <<NewContainer("c7", "iohog", 1, 1024, 250, 7500)>>)
        EXCEPT ![2] = UpdateHealthScore(@, Fix(1, 2))]}

\* the scheduler as constructed, and as one Schedule call of a web container
\* on the nodes ns leaves it
AdaptiveSchedulers(ns) ==
    {NewAdaptiveScheduler(0)}
    \cup {r.sched :
            r \in AdaptiveSchedule(NewAdaptiveScheduler(0),
                                   NewContainer("c1", "web", 1, 1024, 250, 1250),
                                   ns, 0)}

\* the instants of these calls: both ends of the normal phase and beyond
AdaptiveTimePoints == {0, 1, 10, 11}

InitAdaptive ==
    /\ nodes \in AdaptiveNodeLists
    /\ sched \in AdaptiveSchedulers(nodes)
    /\ now = 0
    /\ ops = 0
    /\ last = Call("", "", NoContainer, "", 0, TRUE)
    /\ heap = <<>>
    /\ placer = NotStarted
    /\ reaper = NotStarted
    /\ metrics = NewCollector
    /\ bench = NotRunning

TickAdaptive ==
    /\ \E t \in AdaptiveTimePoints : t > now /\ now' = t
    /\ last' = Call("Tick", "", NoContainer, "", 0, TRUE)
    /\ UNCHANGED <<nodes, sched, ops, runVars>>

NextAdaptive ==
    \/ \E c \in AdaptiveContainers : ScheduleAdaptive(c)
    \/ TickAdaptive

SpecAdaptive == InitAdaptive /\ [][NextAdaptive]_vars

---------------------------------------------------------------------------
(* Benchmark.Run: scheduleContainers and cleanupContainers on shared nodes *)

\* Node has no lock.  The two goroutines call AddContainer and
\* RemoveContainer on the same nodes, so each statement of these methods is
\* a sequence of loads and stores of the node's fields, and the steps of the
\* two goroutines interleave.  Memory is taken to be sequentially consistent:
\* a load returns the last value stored.
\*
\* A slice is a header [ptr, len]; ptr is an index into heap, the backing
\* arrays (0: no array); the capacity is the length of the array.  An array
\* slot never written holds NoContainer (nil).  Here nodes[i].containers is
\* such a header.

\* ticks of the cleanup ticker in one behaviour
MaxReaperTicks == 1

EmptySlice == [ptr |-> 0, len |-> 0]

Cap(h, sl) == IF sl.ptr = 0 THEN 0 ELSE Len(h[sl.ptr])

\* the elements of a slice
Elems(h, sl) == [k \in 1..sl.len |-> h[sl.ptr][k]]

\* capacity of the array that growslice allocates for pointers: double, or
\* what is needed when that is more, rounded up to a malloc size class
GrowCap(oldCap, need) ==
    LET newCap == IF need > 2 * oldCap THEN need ELSE 2 * oldCap
    IN  IF newCap = 5 THEN 6 ELSE IF newCap = 7 THEN 8 ELSE newCap

\* append(dst, elems...): the heap after it and the slice it returns
AppendSlice(h, dst, elems) ==
    LET need == dst.len + Len(elems)
        put(old) == [k \in 1..Len(old) |->
                        IF k > dst.len /\ k <= need
                        THEN elems[k - dst.len] ELSE old[k]]
    IN  IF need <= Cap(h, dst)
        THEN [heap |-> IF dst.ptr = 0 THEN h
                       ELSE [h EXCEPT ![dst.ptr] = put(h[dst.ptr])],
              slice |-> [ptr |-> dst.ptr, len |-> need]]
        ELSE [heap |-> Append(h,
                        [k \in 1..GrowCap(Cap(h, dst), need) |->
                            IF k <= dst.len THEN h[dst.ptr][k]
                            ELSE IF k <= need THEN elems[k - dst.len]
                            ELSE NoContainer]),
              slice |-> [ptr |-> Len(h) + 1, len |-> need]]

\* the four resources, in the order the methods go through them
UsedField == <<"usedCPU", "usedMemory", "usedNetwork", "usedIO">>
TotalField == <<"totalCPU", "totalMemory", "totalNetwork", "totalIO">>
RequestField ==
    <<"cpuRequest", "memoryRequest", "networkRequest", "ioRequest">>

\* the nodes of a run, and the containers the workload generator hands out
RunNodes == <<[SmallNode("N1", 0) EXCEPT !.containers = EmptySlice]>>

RunWorkload ==
    <<NewContainer("w1", "web", 1, 1024, 250, 1250),
      NewContainer("w2", "batch", 1, 2048, 500, 2500)>>

\* A goroutine between two calls.  workload is what the generator hands
\* out and next counts the containers taken from it; ok is the success flag
\* of the event to record; placed and removed are the ids for which
\* AddContainer and RemoveContainer returned true; ticks counts the cleanup
\* ticks; count is len(containers) when the pass over a node began.
Locals ==
    [node |-> 0, c |-> NoContainer, r |-> 1, tmp |-> 0, sl |-> EmptySlice,
     util |-> 0, hist |-> <<>>]

\* workload, next and maxCount are the generator: the containers it draws,
\* its count and its cap; latency is time.Since(startTime), one of latencies
NewPlacer(workload, maxCount, latencies) ==
    [pc |-> "tick", workload |-> workload, next |-> 0, maxCount |-> maxCount,
     latencies |-> latencies, placed |-> {}, ok |-> FALSE, latency |-> 0,
     l |-> Locals]

ReaperAt(pc, ticks, removed) ==
    [pc |-> pc, ticks |-> ticks, removed |-> removed, l |-> Locals,
     containers |-> EmptySlice, count |-> 0, i |-> 0, idx |-> 0, id |-> "",
     rng |-> EmptySlice, k |-> 0, lo |-> EmptySlice, hi |-> EmptySlice]

\* Run after the two go statements: in time.Sleep, stopChan open
Running == [pc |-> "sleep", stopChan |-> "open", elapsed |-> 0]

InitRun ==
    /\ nodes = RunNodes
    /\ heap = <<>>
    /\ placer = NewPlacer(RunWorkload, Len(RunWorkload), {1})
    /\ reaper = ReaperAt("tick", 0, {})
    /\ metrics = NewCollector
    /\ bench = Running
    /\ sched = NewAdaptiveScheduler(0)
    /\ now = 0
    /\ ops = 0
    /\ last = Call("", "", NoContainer, "", 0, TRUE)

\* Steps that AddContainer and RemoveContainer have in common, on the locals
\* l of the goroutine making the call.

\* n.used_r += / -= request: the load
LoadUsed(l) == [l EXCEPT !.tmp = nodes[l.node][UsedField[l.r]]]

\* n.used_r += / -= request: the store (sign is 1 or -1)
StoreUsed(l, sign) ==
    [nodes EXCEPT ![l.node][UsedField[l.r]] =
        l.tmp + sign * l.c[RequestField[l.r]]]

\* append(n.loadHistory, n.Utilization()): the loads
Sample(l) ==
    [l EXCEPT !.util = Utilization(nodes[l.node]),
              !.hist = nodes[l.node].loadHistory]

\* n.loadHistory = append(...): the store
StoreHistory(l) ==
    [nodes EXCEPT ![l.node].loadHistory = Append(l.hist, l.util)]

\* if len(n.loadHistory) > 10 { n.loadHistory = n.loadHistory[1:] }
Trim(l) ==
    [nodes EXCEPT ![l.node].loadHistory =
        IF Len(@) > LoadHistoryCap THEN Tail(@) ELSE @]

\* no node (nil)
NoNode == [id |-> ""]

\* RecordSchedulingEvent, but the latency of a failure is added as well
RecordSchedulingEventSumsAllLatencies(c, container, node, latency, success) ==
    LET nodeID == IF node # NoNode THEN node.id ELSE ""
        utilization == IF node # NoNode THEN Utilization(node) ELSE 0
        event == [containerID |-> container.id,
                  containerType |-> container.containerType,
                  nodeID |-> nodeID, schedulingLatency |-> latency,
                  scheduleSuccess |-> success,
                  resourceUtilization |-> utilization]
        c1 == IF node # NoNode
              THEN [c EXCEPT
                      !.resourceUtilization =
                          [num |-> @.num * c.utilizationDatapoints
                                    + utilization * @.den,
                           den |-> @.den * (c.utilizationDatapoints + 1)],
                      !.utilizationDatapoints = @ + 1]
              ELSE c
        c2 == [c1 EXCEPT !.events = Append(@, event)]
    IN  IF success
        THEN [c2 EXCEPT !.containersScheduled = @ + 1,
                        !.totalLatency = @ + latency]
        ELSE [c2 EXCEPT !.schedulingFailures = @ + 1,
                        !.totalLatency = @ + latency]

\* MetricsCollector.RecordSchedulingEvent(container, node, latency, success):
\* the running average is (average * datapoints + utilization) /
\* (datapoints + 1), in exact fractions
RecordSchedulingEvent(c, container, node, latency, success) ==
    LET nodeID == IF node # NoNode THEN node.id ELSE ""
        utilization == IF node # NoNode THEN Utilization(node) ELSE 0
        event == [containerID |-> container.id,
                  containerType |-> container.containerType,
                  nodeID |-> nodeID, schedulingLatency |-> latency,
                  scheduleSuccess |-> success,
                  resourceUtilization |-> utilization]
        c1 == IF node # NoNode
              THEN [c EXCEPT
                      !.resourceUtilization =
                          [num |-> @.num * c.utilizationDatapoints
                                    + utilization * @.den,
                           den |-> @.den * (c.utilizationDatapoints + 1)],
                      !.utilizationDatapoints = @ + 1]
              ELSE c
        c2 == [c1 EXCEPT !.events = Append(@, event)]
    IN  IF success
        THEN [c2 EXCEPT !.containersScheduled = @ + 1,
                        !.totalLatency = @ + latency]
        ELSE [c2 EXCEPT !.schedulingFailures = @ + 1]

\* MetricsCollector.GetResults.  averageLatency is the fraction num/den, 0
\* without a success; the conversion to milliseconds is left out.
GetResults(c) ==
    [containersScheduled |-> c.containersScheduled,
     schedulingFailures |-> c.schedulingFailures,
     averageLatency |->
        IF c.containersScheduled > 0
        THEN [num |-> c.totalLatency, den |-> c.containersScheduled]
        ELSE [num |-> 0, den |-> 1],
     resourceUtilization |-> c.resourceUtilization,
     events |-> c.events]

\* HasNext, but one container beyond the cap
HasNextInclusive(g) == g.next <= g.maxCount

\* FileWorkloadGenerator.HasNext
HasNext(g) == g.next < g.maxCount

\* FileWorkloadGenerator.NextContainer: the generator after the call and the
\* container returned, nil at the cap.  What the random draws of template
\* and requests give is the next container of g.workload.
NextContainer(g) ==
    IF ~HasNext(g) THEN [g |-> g, c |-> NoContainer]
    ELSE [g |-> [g EXCEPT !.next = @ + 1], c |-> g.workload[g.next + 1]]

\* latencies time.Since(startTime) gives
Latencies == {1, 2}

\* scheduleContainers: case <-ticker.C of the select.  The goroutine returns
\* when the workload is used up, and takes the next container otherwise.
\* The select chooses among the cases that are ready, so a tick can be taken
\* whether or not stopChan is closed.
PlacerTick ==
    /\ placer.pc = "tick"
    /\ placer' =
        IF ~HasNext(placer)
        THEN [placer EXCEPT !.pc = "done"]
        ELSE LET r == NextContainer(placer)
             IN  IF r.c = NoContainer THEN r.g
                 ELSE [r.g EXCEPT !.pc = "schedule", !.l.c = r.c]
    /\ UNCHANGED <<nodes, heap, reaper, callVars, metrics, bench>>

\* PlacerSchedule, but an error of Schedule ends the goroutine
PlacerScheduleReturnsOnError ==
    /\ placer.pc = "schedule"
    /\ \E res \in BinPackSchedule(placer.l.c, nodes), d \in placer.latencies :
        placer' =
            IF res.err THEN [placer EXCEPT !.pc = "done", !.l = Locals]
            ELSE [placer EXCEPT !.pc = "fit", !.l.node = res.node,
                                !.latency = d]
    /\ UNCHANGED <<nodes, heap, reaper, callVars, metrics, bench>>

\* b.scheduler.Schedule(container, b.nodes), the policy being BinPack
PlacerSchedule ==
    /\ placer.pc = "schedule"
    /\ \E res \in BinPackSchedule(placer.l.c, nodes), d \in placer.latencies :
        placer' =
            IF res.err
            THEN [placer EXCEPT !.pc = "record", !.ok = FALSE, !.latency = d]
            ELSE [placer EXCEPT !.pc = "fit", !.l.node = res.node,
                                !.latency = d]
    /\ UNCHANGED <<nodes, heap, reaper, callVars, metrics, bench>>

\* AddContainer: one conjunct of CanFit; false ends the call
PlacerCanFit ==
    /\ placer.pc = "fit"
    /\ LET l == placer.l
           n == nodes[l.node]
       IN  placer' =
            IF l.c[RequestField[l.r]] > n[TotalField[l.r]] - n[UsedField[l.r]]
            THEN [placer EXCEPT !.l.r = 1, !.pc = "record", !.ok = FALSE]
            ELSE IF l.r < 4 THEN [placer EXCEPT !.l.r = @ + 1]
            ELSE [placer EXCEPT !.l.r = 1, !.pc = "load"]
    /\ UNCHANGED <<nodes, heap, reaper, callVars, metrics, bench>>

PlacerLoad ==
    /\ placer.pc = "load"
    /\ placer' = [placer EXCEPT !.l = LoadUsed(@), !.pc = "store"]
    /\ UNCHANGED <<nodes, heap, reaper, callVars, metrics, bench>>

PlacerStore ==
    /\ placer.pc = "store"
    /\ nodes' = StoreUsed(placer.l, 1)
    /\ placer' =
        IF placer.l.r < 4
        THEN [placer EXCEPT !.l.r = @ + 1, !.l.tmp = 0, !.pc = "load"]
        ELSE [placer EXCEPT !.l.r = 1, !.l.tmp = 0, !.pc = "slice"]
    /\ UNCHANGED <<heap, reaper, callVars, metrics, bench>>

\* n.containers = append(n.containers, c): the load of the slice
PlacerLoadSlice ==
    /\ placer.pc = "slice"
    /\ placer' = [placer EXCEPT !.l.sl = nodes[placer.l.node].containers,
                                !.pc = "append"]
    /\ UNCHANGED <<nodes, heap, reaper, callVars, metrics, bench>>

\* ... the element written behind the slice, in a new array when the old
\* one is full
PlacerAppend ==
    /\ placer.pc = "append"
    /\ LET a == AppendSlice(heap, placer.l.sl, <<placer.l.c>>)
       IN  /\ heap' = a.heap
           /\ placer' = [placer EXCEPT !.l.sl = a.slice, !.pc = "setslice"]
    /\ UNCHANGED <<nodes, reaper, callVars, metrics, bench>>

\* PlacerStoreSlice, but the event is recorded as a success from here on,
\* before AddContainer has returned
PlacerStoreSliceThenRecord ==
    /\ placer.pc = "setslice"
    /\ nodes' = [nodes EXCEPT ![placer.l.node].containers = placer.l.sl]
    /\ placer' = [placer EXCEPT !.l.sl = EmptySlice, !.pc = "record",
                                !.ok = TRUE]
    /\ UNCHANGED <<heap, reaper, callVars, metrics, bench>>

\* ... the store of the slice
PlacerStoreSlice ==
    /\ placer.pc = "setslice"
    /\ nodes' = [nodes EXCEPT ![placer.l.node].containers = placer.l.sl]
    /\ placer' = [placer EXCEPT !.l.sl = EmptySlice, !.pc = "sample"]
    /\ UNCHANGED <<heap, reaper, callVars, metrics, bench>>

PlacerSample ==
    /\ placer.pc = "sample"
    /\ placer' = [placer EXCEPT !.l = Sample(@), !.pc = "sethist"]
    /\ UNCHANGED <<nodes, heap, reaper, callVars, metrics, bench>>

PlacerStoreHistory ==
    /\ placer.pc = "sethist"
    /\ nodes' = StoreHistory(placer.l)
    /\ placer' = [placer EXCEPT !.pc = "trim"]
    /\ UNCHANGED <<heap, reaper, callVars, metrics, bench>>

\* the end of AddContainer: it returns true
PlacerTrim ==
    /\ placer.pc = "trim"
    /\ nodes' = Trim(placer.l)
    /\ placer' = [placer EXCEPT !.placed = @ \cup {placer.l.c.id},
                                !.l.util = 0, !.l.hist = <<>>,
                                !.pc = "record", !.ok = TRUE]
    /\ UNCHANGED <<heap, reaper, callVars, metrics, bench>>

\* b.metricsCollector.RecordSchedulingEvent(container, node, latency, ok),
\* node being nil after a Schedule that returned an error; then the select
PlacerRecord ==
    /\ placer.pc = "record"
    /\ metrics' =
        RecordSchedulingEvent(metrics, placer.l.c,
            IF placer.l.node = 0 THEN NoNode ELSE nodes[placer.l.node],
            placer.latency, placer.ok)
    /\ placer' = [placer EXCEPT !.pc = "tick", !.ok = FALSE, !.latency = 0,
                                !.l = Locals]
    /\ UNCHANGED <<nodes, heap, reaper, callVars, bench>>

\* case <-b.stopChan of the select: the goroutine returns
PlacerStop ==
    /\ placer.pc = "tick"
    /\ bench.stopChan = "closed"
    /\ placer' = [placer EXCEPT !.pc = "done"]
    /\ UNCHANGED <<nodes, heap, reaper, callVars, metrics, bench>>

scheduleContainers ==
    \/ PlacerTick
    \/ PlacerSchedule
    \/ PlacerCanFit
    \/ PlacerLoad
    \/ PlacerStore
    \/ PlacerLoadSlice
    \/ PlacerAppend
    \/ PlacerStoreSlice
    \/ PlacerSample
    \/ PlacerStoreHistory
    \/ PlacerTrim
    \/ PlacerRecord

\* cleanupContainers: case <-ticker.C of the select starts
\* removeRandomContainers at the first node
ReaperTickWithin(maxTicks) ==
    /\ reaper.pc = "tick"
    /\ reaper.ticks < maxTicks
    /\ reaper' = [reaper EXCEPT !.pc = "snap", !.ticks = @ + 1, !.l.node = 1]
    /\ UNCHANGED <<nodes, heap, placer, callVars, metrics, bench>>

ReaperTick == ReaperTickWithin(MaxReaperTicks)

\* for _, node := range b.nodes { containers := node.Containers(); i := 0
ReaperSnapshot ==
    /\ reaper.pc = "snap"
    /\ reaper' =
        IF reaper.l.node > Len(nodes)
        THEN ReaperAt("tick", reaper.ticks, reaper.removed)
        ELSE [reaper EXCEPT !.containers = nodes[reaper.l.node].containers,
                            !.count = nodes[reaper.l.node].containers.len,
                            !.i = 0, !.pc = "pick"]
    /\ UNCHANGED <<nodes, heap, placer, callVars, metrics, bench>>

\* the readings time.Now().Nanosecond() gives
Nanoseconds == {1, 10}

\* ReaperPick, but the loop ends at a list of one container as at an empty
\* one
ReaperPickLeavesLast ==
    /\ reaper.pc = "pick"
    /\ IF reaper.i < reaper.containers.len \div 10 + 1
            /\ reaper.containers.len > 1
       THEN \E ns \in Nanoseconds :
                LET containerIdx == ns % reaper.containers.len
                IN  reaper' =
                        IF containerIdx >= reaper.containers.len
                        THEN ReaperAt("panic", reaper.ticks, reaper.removed)
                        ELSE IF heap[reaper.containers.ptr][containerIdx + 1]
                                    = NoContainer
                        THEN ReaperAt("panic", reaper.ticks, reaper.removed)
                        ELSE [reaper EXCEPT
                                !.idx = containerIdx,
                                !.id = heap[reaper.containers.ptr]
                                           [containerIdx + 1].id,
                                !.pc = "range"]
       ELSE reaper' = [reaper EXCEPT !.l.node = @ + 1, !.pc = "snap",
                                     !.containers = EmptySlice,
                                     !.count = 0, !.i = 0]
    /\ UNCHANGED <<nodes, heap, placer, callVars, metrics, bench>>

\* ReaperPick with the index taken modulo len(containers) + 1
ReaperPickOffByOne ==
    /\ reaper.pc = "pick"
    /\ IF reaper.i < reaper.containers.len \div 10 + 1
            /\ reaper.containers.len # 0
       THEN \E ns \in Nanoseconds :
                LET containerIdx == ns % (reaper.containers.len + 1)
                IN  reaper' =
                        IF containerIdx >= reaper.containers.len
                        THEN ReaperAt("panic", reaper.ticks, reaper.removed)
                        ELSE IF heap[reaper.containers.ptr][containerIdx + 1]
                                    = NoContainer
                        THEN ReaperAt("panic", reaper.ticks, reaper.removed)
                        ELSE [reaper EXCEPT
                                !.idx = containerIdx,
                                !.id = heap[reaper.containers.ptr]
                                           [containerIdx + 1].id,
                                !.pc = "range"]
       ELSE reaper' = [reaper EXCEPT !.l.node = @ + 1, !.pc = "snap",
                                     !.containers = EmptySlice,
                                     !.count = 0, !.i = 0]
    /\ UNCHANGED <<nodes, heap, placer, callVars, metrics, bench>>

\* The head of the inner loop: when i < len(containers)/10+1 and containers
\* is not empty, an index from the clock and the id of containers[index];
\* the next node otherwise.  An index beyond the slice, or a nil element,
\* ends the goroutine in a panic.
ReaperPick ==
    /\ reaper.pc = "pick"
    /\ IF reaper.i < reaper.containers.len \div 10 + 1
            /\ reaper.containers.len # 0
       THEN \E ns \in Nanoseconds :
                LET containerIdx == ns % reaper.containers.len
                IN  reaper' =
                        IF containerIdx >= reaper.containers.len
                        THEN ReaperAt("panic", reaper.ticks, reaper.removed)
                        ELSE IF heap[reaper.containers.ptr][containerIdx + 1]
                                    = NoContainer
                        THEN ReaperAt("panic", reaper.ticks, reaper.removed)
                        ELSE [reaper EXCEPT
                                !.idx = containerIdx,
                                !.id = heap[reaper.containers.ptr]
                                           [containerIdx + 1].id,
                                !.pc = "range"]
       ELSE reaper' = [reaper EXCEPT !.l.node = @ + 1, !.pc = "snap",
                                     !.containers = EmptySlice,
                                     !.count = 0, !.i = 0]
    /\ UNCHANGED <<nodes, heap, placer, callVars, metrics, bench>>

\* RemoveContainer: for i, c := range n.containers, the load of the slice
ReaperRange ==
    /\ reaper.pc = "range"
    /\ reaper' = [reaper EXCEPT !.rng = nodes[reaper.l.node].containers,
                                !.k = 1, !.pc = "cmp"]
    /\ UNCHANGED <<nodes, heap, placer, callVars, metrics, bench>>

\* One iteration of the range loop: the element, and its id against
\* containerID.  The end of the range returns false, and
\* removeRandomContainers goes on.
ReaperCompare ==
    /\ reaper.pc = "cmp"
    /\ reaper' =
        IF reaper.k > reaper.rng.len
        THEN [reaper EXCEPT !.rng = EmptySlice, !.k = 0, !.id = "",
                            !.pc = "resnap"]
        ELSE LET e == heap[reaper.rng.ptr][reaper.k]
             IN  IF e = NoContainer
                 THEN ReaperAt("panic", reaper.ticks, reaper.removed)
                 ELSE IF e.id = reaper.id
                 THEN [reaper EXCEPT !.l.c = e, !.l.r = 1, !.pc = "load"]
                 ELSE [reaper EXCEPT !.k = @ + 1]
    /\ UNCHANGED <<nodes, heap, placer, callVars, metrics, bench>>

ReaperLoad ==
    /\ reaper.pc = "load"
    /\ reaper' = [reaper EXCEPT !.l = LoadUsed(@), !.pc = "store"]
    /\ UNCHANGED <<nodes, heap, placer, callVars, metrics, bench>>

ReaperStore ==
    /\ reaper.pc = "store"
    /\ nodes' = StoreUsed(reaper.l, -1)
    /\ reaper' =
        IF reaper.l.r < 4
        THEN [reaper EXCEPT !.l.r = @ + 1, !.l.tmp = 0, !.pc = "load"]
        ELSE [reaper EXCEPT !.l.r = 1, !.l.tmp = 0, !.pc = "low"]
    /\ UNCHANGED <<heap, placer, callVars, metrics, bench>>

\* n.containers[:i]
ReaperSliceLow ==
    /\ reaper.pc = "low"
    /\ reaper' = [reaper EXCEPT !.lo = nodes[reaper.l.node].containers,
                                !.pc = "high"]
    /\ UNCHANGED <<nodes, heap, placer, callVars, metrics, bench>>

\* n.containers[i+1:], a panic when i+1 is beyond the length
ReaperSliceHigh ==
    /\ reaper.pc = "high"
    /\ LET hi == nodes[reaper.l.node].containers
       IN  reaper' =
            IF reaper.k > hi.len
            THEN ReaperAt("panic", reaper.ticks, reaper.removed)
            ELSE [reaper EXCEPT !.hi = hi, !.pc = "shift"]
    /\ UNCHANGED <<nodes, heap, placer, callVars, metrics, bench>>

\* append(n.containers[:i], n.containers[i+1:]...): the elements moved
ReaperShift ==
    /\ reaper.pc = "shift"
    /\ LET src == [j \in 1..(reaper.hi.len - reaper.k) |->
                        heap[reaper.hi.ptr][reaper.k + j]]
           a == AppendSlice(heap, [reaper.lo EXCEPT !.len = reaper.k - 1],
                            src)
       IN  /\ heap' = a.heap
           /\ reaper' = [reaper EXCEPT !.l.sl = a.slice, !.lo = EmptySlice,
                                       !.hi = EmptySlice, !.rng = EmptySlice,
                                       !.k = 0, !.pc = "setslice"]
    /\ UNCHANGED <<nodes, placer, callVars, metrics, bench>>

\* n.containers = append(...): the store of the slice
ReaperStoreSlice ==
    /\ reaper.pc = "setslice"
    /\ nodes' = [nodes EXCEPT ![reaper.l.node].containers = reaper.l.sl]
    /\ reaper' = [reaper EXCEPT !.l.sl = EmptySlice, !.pc = "sample"]
    /\ UNCHANGED <<heap, placer, callVars, metrics, bench>>

ReaperSample ==
    /\ reaper.pc = "sample"
    /\ reaper' = [reaper EXCEPT !.l = Sample(@), !.pc = "sethist"]
    /\ UNCHANGED <<nodes, heap, placer, callVars, metrics, bench>>

ReaperStoreHistory ==
    /\ reaper.pc = "sethist"
    /\ nodes' = StoreHistory(reaper.l)
    /\ reaper' = [reaper EXCEPT !.pc = "trim"]
    /\ UNCHANGED <<heap, placer, callVars, metrics, bench>>

\* the end of RemoveContainer: it returns true
ReaperTrim ==
    /\ reaper.pc = "trim"
    /\ nodes' = Trim(reaper.l)
    /\ reaper' = [reaper EXCEPT !.removed = @ \cup {reaper.id},
                                !.l = [Locals EXCEPT !.node = reaper.l.node],
                                !.id = "", !.pc = "resnap"]
    /\ UNCHANGED <<heap, placer, callVars, metrics, bench>>

\* containers = node.Containers(); i++
ReaperResnap ==
    /\ reaper.pc = "resnap"
    /\ reaper' = [reaper EXCEPT !.containers = nodes[reaper.l.node].containers,
                                !.i = @ + 1, !.idx = 0, !.pc = "pick"]
    /\ UNCHANGED <<nodes, heap, placer, callVars, metrics, bench>>

\* case <-b.stopChan of the select: the goroutine returns
ReaperStop ==
    /\ reaper.pc = "tick"
    /\ bench.stopChan = "closed"
    /\ reaper' = [reaper EXCEPT !.pc = "done"]
    /\ UNCHANGED <<nodes, heap, placer, callVars, metrics, bench>>

removeRandomContainers ==
    \/ ReaperSnapshot
    \/ ReaperPick
    \/ ReaperRange
    \/ ReaperCompare
    \/ ReaperLoad
    \/ ReaperStore
    \/ ReaperSliceLow
    \/ ReaperSliceHigh
    \/ ReaperShift
    \/ ReaperStoreSlice
    \/ ReaperSample
    \/ ReaperStoreHistory
    \/ ReaperTrim
    \/ ReaperResnap

cleanupContainers == ReaperTick \/ removeRandomContainers

NextRun == scheduleContainers \/ cleanupContainers

SpecRace == InitRun /\ [][NextRun]_vars

---------------------------------------------------------------------------
(* Benchmark.Run: from the go statements to its return *)

\* the duration given to Run, in steps of the clock
RunDuration == 1

\* the cap of the generator (SetMaxCount)
BenchMaxCount == 2

\* what the generator draws: the first container fits no node of RunNodes
BenchWorkload ==
    <<NewContainer("w0", "batch", 4, 1024, 250, 1250),
      NewContainer("w1", "web", 1, 1024, 250, 1250),
      NewContainer("w2", "batch", 1, 2048, 500, 2500)>>

InitBench ==
    /\ nodes = RunNodes
    /\ heap = <<>>
    /\ placer = NewPlacer(BenchWorkload, BenchMaxCount, Latencies)
    /\ reaper = ReaperAt("tick", 0, {})
    /\ metrics = NewCollector
    /\ bench = Running
    /\ sched = NewAdaptiveScheduler(0)
    /\ now = 0
    /\ ops = 0
    /\ last = Call("", "", NoContainer, "", 0, TRUE)

\* time passes while Run sleeps
ClockTick ==
    /\ bench.pc = "sleep"
    /\ bench.elapsed < RunDuration
    /\ bench' = [bench EXCEPT !.elapsed = @ + 1]
    /\ UNCHANGED <<nodes, heap, placer, reaper, callVars, metrics>>

\* RunClose, but time.Sleep returns at once
RunCloseWithoutSleep ==
    /\ bench.pc = "sleep"
    /\ bench' = [bench EXCEPT !.stopChan = "closed", !.pc = "wait"]
    /\ UNCHANGED <<nodes, heap, placer, reaper, callVars, metrics>>

\* time.Sleep(duration) returns; close(b.stopChan)
RunClose ==
    /\ bench.pc = "sleep"
    /\ bench.elapsed >= RunDuration
    /\ bench' = [bench EXCEPT !.stopChan = "closed", !.pc = "wait"]
    /\ UNCHANGED <<nodes, heap, placer, reaper, callVars, metrics>>

\* b.wg.Wait() returns when both goroutines have called wg.Done
RunWait ==
    /\ bench.pc = "wait"
    /\ placer.pc = "done"
    /\ reaper.pc = "done"
    /\ bench' = [bench EXCEPT !.pc = "returned"]
    /\ UNCHANGED <<nodes, heap, placer, reaper, callVars, metrics>>

Run == RunClose \/ RunWait

NextBench ==
    \/ scheduleContainers
    \/ PlacerStop
    \/ cleanupContainers
    \/ ReaperStop
    \/ Run
    \/ ClockTick

SpecBench == InitBench /\ [][NextBench]_vars

\* The run under fair scheduling: the clock advances, and Run and the two
\* goroutines are not halted while they can take a step.  A select whose
\* stopChan case is ready again and again takes it at some point (the
\* choice among ready cases is random), hence strong fairness of the two
\* stop cases.
FairBench ==
    /\ SpecBench
    /\ WF_vars(ClockTick)
    /\ WF_vars(Run)
    /\ WF_vars(scheduleContainers)
    /\ WF_vars(cleanupContainers)
    /\ SF_vars(PlacerStop)
    /\ SF_vars(ReaperStop)

---------------------------------------------------------------------------
(* The MetricsCollector alone: a sequence of RecordSchedulingEvent calls *)

\* record calls in one behaviour
MaxRecords == 3

\* the nodes given to the calls (0: nil), of PreplacedNodes
RecordNodes == {0, 1, 3}

RecordContainers ==
    {NewContainer("c1", "web", 1, 1024, 250, 1250),
     NewContainer("c2", "batch", 3, 4096, 1000, 7500)}

InitMetrics ==
    /\ nodes = PreplacedNodes
    /\ sched = NewAdaptiveScheduler(0)
    /\ now = 0
    /\ ops = 0
    /\ last = Call("", "", NoContainer, "", 0, TRUE)
    /\ heap = <<>>
    /\ placer = NotStarted
    /\ reaper = NotStarted
    /\ metrics = NewCollector
    /\ bench = NotRunning

Record(c, i, latency, success) ==
    /\ ops < MaxRecords
    /\ metrics' =
        RecordSchedulingEvent(metrics, c,
            IF i = 0 THEN NoNode ELSE nodes[i], latency, success)
    /\ last' = Call("RecordSchedulingEvent", "", c, c.id, i, success)
    /\ ops' = ops + 1
    /\ UNCHANGED <<nodes, sched, now, heap, placer, reaper, bench>>

NextMetrics ==
    \E c \in RecordContainers, i \in RecordNodes, latency \in Latencies,
       success \in BOOLEAN :
        Record(c, i, latency, success)

SpecMetrics == InitMetrics /\ [][NextMetrics]_vars

---------------------------------------------------------------------------
(* cleanupContainers alone, on a node that holds containers *)

\* the numbers of containers on the node when the goroutine starts
ReapCounts == {0, 1, 3, 10, 11}

ReapIDs ==
    <<"r1", "r2", "r3", "r4", "r5", "r6", "r7", "r8", "r9", "r10", "r11">>

\* A large node after AddContainer of k containers, and the backing arrays
\* the appends allocated
RECURSIVE ReapNode(_)
ReapNode(k) ==
    IF k = 0
    THEN [node |-> [LargeNode("N1", 0) EXCEPT !.containers = EmptySlice],
          heap |-> <<>>]
    ELSE LET p == ReapNode(k - 1)
             c == NewContainer(ReapIDs[k], "idle", 0, 1024, 250, 1250)
             a == AppendSlice(p.heap, p.node.containers, <<c>>)
             n == [p.node EXCEPT !.usedCPU = @ + c.cpuRequest,
                                 !.usedMemory = @ + c.memoryRequest,
                                 !.usedNetwork = @ + c.networkRequest,
                                 !.usedIO = @ + c.ioRequest,
                                 !.containers = a.slice]
         IN  [node |-> PushLoad(n), heap |-> a.heap]

\* the placer has returned, its workload used up
InitReap ==
    /\ \E k \in ReapCounts :
        /\ nodes = <<ReapNode(k).node>>
        /\ heap = ReapNode(k).heap
    /\ placer = [NewPlacer(<<>>, 0, {1}) EXCEPT !.pc = "done"]
    /\ reaper = ReaperAt("tick", 0, {})
    /\ metrics = NewCollector
    /\ bench = Running
    /\ sched = NewAdaptiveScheduler(0)
    /\ now = 0
    /\ ops = 0
    /\ last = Call("", "", NoContainer, "", 0, TRUE)

NextReap == cleanupContainers

SpecReap == InitReap /\ [][NextReap]_vars

---------------------------------------------------------------------------
(* Both goroutines on a node that holds 11 containers *)

\* The reaper's pass over the node makes two removals, the second on the
\* list the first has shortened, while the placer adds a container.
ChurnWorkload == <<NewContainer("w1", "web", 1, 1024, 250, 1250)>>

InitChurn ==
    /\ nodes = <<ReapNode(Len(ReapIDs)).node>>
    /\ heap = ReapNode(Len(ReapIDs)).heap
    /\ placer = NewPlacer(ChurnWorkload, Len(ChurnWorkload), {1})
    /\ reaper = ReaperAt("tick", 0, {})
    /\ metrics = NewCollector
    /\ bench = Running
    /\ sched = NewAdaptiveScheduler(0)
    /\ now = 0
    /\ ops = 0
    /\ last = Call("", "", NoContainer, "", 0, TRUE)

SpecChurn == InitChurn /\ [][NextRun]_vars

---------------------------------------------------------------------------
(* Benchmark.Run with every node operation executed as one step *)

\* What a lock in Node would give: CanFit, AddContainer, RemoveContainer and
\* Containers each take effect in one step, and the steps of the two
\* goroutines interleave between the calls: between Schedule and
\* AddContainer, and between Containers and RemoveContainer.

\* the generator hands out all three containers of BenchWorkload
AtomicMaxCount == 3

InitAtomic ==
    /\ nodes = RunNodes
    /\ heap = <<>>
    /\ placer = NewPlacer(BenchWorkload, AtomicMaxCount, {1})
    /\ reaper = ReaperAt("tick", 0, {})
    /\ metrics = NewCollector
    /\ bench = Running
    /\ sched = NewAdaptiveScheduler(0)
    /\ now = 0
    /\ ops = 0
    /\ last = Call("", "", NoContainer, "", 0, TRUE)

\* node.AddContainer(container) as one step
PlacerAddContainer ==
    /\ placer.pc = "fit"
    /\ LET n == nodes[placer.l.node]
           c == placer.l.c
           a == AppendSlice(heap, n.containers, <<c>>)
       IN  IF ~CanFit(n, c)
           THEN /\ placer' = [placer EXCEPT !.pc = "record", !.ok = FALSE]
                /\ UNCHANGED <<nodes, heap>>
           ELSE /\ nodes' = [nodes EXCEPT ![placer.l.node] =
                        PushLoad([n EXCEPT !.usedCPU = @ + c.cpuRequest,
                                           !.usedMemory = @ + c.memoryRequest,
                                           !.usedNetwork = @ + c.networkRequest,
                                           !.usedIO = @ + c.ioRequest,
                                           !.containers = a.slice])]
                /\ heap' = a.heap
                /\ placer' = [placer EXCEPT !.placed = @ \cup {c.id},
                                            !.pc = "record", !.ok = TRUE]
    /\ UNCHANGED <<reaper, callVars, metrics, bench>>

\* ReaperRemoveContainer, but the requests are added to the used amounts
ReaperRemoveContainerAddsUsage ==
    /\ reaper.pc = "range"
    /\ LET n == nodes[reaper.l.node]
           es == Elems(heap, n.containers)
           i == FirstIndexOf(es, reaper.id)
       IN  IF i = 0
           THEN /\ reaper' = [reaper EXCEPT !.id = "", !.pc = "resnap"]
                /\ UNCHANGED <<nodes, heap>>
           ELSE LET c == es[i]
                    a == AppendSlice(heap, [n.containers EXCEPT !.len = i - 1],
                                     SubSeq(es, i + 1, Len(es)))
                IN  /\ nodes' = [nodes EXCEPT ![reaper.l.node] =
                            PushLoad([n EXCEPT
                                !.usedCPU = @ + c.cpuRequest,
                                !.usedMemory = @ + c.memoryRequest,
                                !.usedNetwork = @ + c.networkRequest,
                                !.usedIO = @ + c.ioRequest,
                                !.containers = a.slice])]
                    /\ heap' = a.heap
                    /\ reaper' = [reaper EXCEPT !.removed = @ \cup {reaper.id},
                                                !.id = "", !.pc = "resnap"]
    /\ UNCHANGED <<placer, callVars, metrics, bench>>

\* node.RemoveContainer(containerID) as one step
ReaperRemoveContainer ==
    /\ reaper.pc = "range"
    /\ LET n == nodes[reaper.l.node]
           es == Elems(heap, n.containers)
           i == FirstIndexOf(es, reaper.id)
       IN  IF i = 0
           THEN /\ reaper' = [reaper EXCEPT !.id = "", !.pc = "resnap"]
                /\ UNCHANGED <<nodes, heap>>
           ELSE LET c == es[i]
                    a == AppendSlice(heap, [n.containers EXCEPT !.len = i - 1],
                                     SubSeq(es, i + 1, Len(es)))
                IN  /\ nodes' = [nodes EXCEPT ![reaper.l.node] =
                            PushLoad([n EXCEPT
                                !.usedCPU = @ - c.cpuRequest,
                                !.usedMemory = @ - c.memoryRequest,
                                !.usedNetwork = @ - c.networkRequest,
                                !.usedIO = @ - c.ioRequest,
                                !.containers = a.slice])]
                    /\ heap' = a.heap
                    /\ reaper' = [reaper EXCEPT !.removed = @ \cup {reaper.id},
                                                !.id = "", !.pc = "resnap"]
    /\ UNCHANGED <<placer, callVars, metrics, bench>>

NextAtomic ==
    \/ PlacerTick
    \/ PlacerSchedule
    \/ PlacerAddContainer
    \/ PlacerRecord
    \/ PlacerStop
    \/ ReaperTick
    \/ ReaperSnapshot
    \/ ReaperPick
    \/ ReaperRemoveContainer
    \/ ReaperResnap
    \/ ReaperStop
    \/ Run
    \/ ClockTick

SpecAtomic == InitAtomic /\ [][NextAtomic]_vars

---------------------------------------------------------------------------
(* cleanupContainers ticking on, the placer having returned *)

\* ticks of the cleanup ticker in one behaviour of the drain: one more than
\* it takes to empty the nodes below
DrainTicks == 4

\* node n after AddContainer of each container of cs, and the backing arrays
RECURSIVE Filled(_, _, _)
Filled(n, h, cs) ==
    IF cs = <<>> THEN [node |-> n, heap |-> h]
    ELSE LET c == Head(cs)
             a == AppendSlice(h, n.containers, <<c>>)
             m == [n EXCEPT !.usedCPU = @ + c.cpuRequest,
                            !.usedMemory = @ + c.memoryRequest,
                            !.usedNetwork = @ + c.networkRequest,
                            !.usedIO = @ + c.ioRequest,
                            !.containers = a.slice]
         IN  Filled(PushLoad(m), a.heap, Tail(cs))

\* A node of three containers, an empty node, and a node of two containers
\* that carry one id
DrainFirst ==
    Filled([LargeNode("N1", 0) EXCEPT !.containers = EmptySlice], <<>>,
           <<NewContainer("r1", "idle", 0, 1024, 250, 1250),
             NewContainer("r2", "web", 1, 1024, 250, 1250),
             NewContainer("r3", "batch", 1, 2048, 500, 2500)>>)

DrainLast ==
    Filled([SmallNode("N3", 0) EXCEPT !.containers = EmptySlice],
           DrainFirst.heap,
           <<NewContainer("d1", "idle", 0, 1024, 250, 1250),
             NewContainer("d1", "web", 1, 1024, 250, 1250)>>)

DrainNodes ==
    <<DrainFirst.node,
      [MediumNode("N2", 0) EXCEPT !.containers = EmptySlice],
      DrainLast.node>>

InitDrain ==
    /\ nodes = DrainNodes
    /\ heap = DrainLast.heap
    /\ placer = [NewPlacer(<<>>, 0, {1}) EXCEPT !.pc = "done"]
    /\ reaper = ReaperAt("tick", 0, {})
    /\ metrics = NewCollector
    /\ bench = Running
    /\ sched = NewAdaptiveScheduler(0)
    /\ now = 0
    /\ ops = 0
    /\ last = Call("", "", NoContainer, "", 0, TRUE)

DrainTick == ReaperTickWithin(DrainTicks)

NextDrain == DrainTick \/ removeRandomContainers

SpecDrain == InitDrain /\ [][NextDrain]_vars

\* stopChan stays open and the ticker goes on firing, so the goroutine takes
\* its next step whenever it has one
FairDrain == SpecDrain /\ WF_vars(NextDrain)

---------------------------------------------------------------------------
(* Properties of the node operations *)

\* every request and capacity of the model divides evenly into 1/RatioDen
RatiosExact ==
    \A i \in 1..Len(nodes) :
        /\ (nodes[i].usedCPU * RatioDen) % nodes[i].totalCPU = 0
        /\ (nodes[i].usedMemory * RatioDen) % nodes[i].totalMemory = 0
        /\ (nodes[i].usedNetwork * RatioDen) % nodes[i].totalNetwork = 0
        /\ (nodes[i].usedIO * RatioDen) % nodes[i].totalIO = 0

SumField(cs, field) == SumSeq([k \in 1..Len(cs) |-> cs[k][field]])

Requests(n, field) == SumField(n.containers, field)

\* C1: after any sequence of AddContainer/RemoveContainer calls, each used_r
\* of each node is the sum of the r-requests of the containers in its list,
\* and 0 <= used_r <= total_r.
C1_Accounting ==
    \A i \in 1..Len(nodes) :
        LET n == nodes[i]
        IN  /\ n.usedCPU = Requests(n, "cpuRequest")
            /\ n.usedMemory = Requests(n, "memoryRequest")
            /\ n.usedNetwork = Requests(n, "networkRequest")
            /\ n.usedIO = Requests(n, "ioRequest")
            /\ 0 <= n.usedCPU /\ n.usedCPU <= n.totalCPU
            /\ 0 <= n.usedMemory /\ n.usedMemory <= n.totalMemory
            /\ 0 <= n.usedNetwork /\ n.usedNetwork <= n.totalNetwork
            /\ 0 <= n.usedIO /\ n.usedIO <= n.totalIO

\* a container was removed from a node that still holds another one
C1_Witness ==
    /\ last.op = "RemoveContainer" /\ last.ok
    /\ Len(nodes[last.node].containers) >= 1

\* C3: an AddContainer that returns false leaves the node as it was (usage,
\* container list and load history), and every other node too.
C3_FailedAddChangesNothing ==
    [][(last'.op = "AddContainer" /\ ~last'.ok) => nodes' = nodes]_vars

\* an add was refused for memory alone, on a node that holds a container
C3_Witness ==
    /\ last.op = "AddContainer" /\ ~last.ok
    /\ Len(nodes[last.node].containers) >= 1
    /\ last.container.cpuRequest <= AvailableCPU(nodes[last.node])
    /\ last.container.memoryRequest > AvailableMemory(nodes[last.node])
    /\ last.container.networkRequest <= AvailableNetwork(nodes[last.node])
    /\ last.container.ioRequest <= AvailableIO(nodes[last.node])

\* C4: RemoveContainer(id) with no container of that id on the node returns
\* false and changes nothing; otherwise it returns true, deletes the first
\* container of that id and no other, and lowers each used_r by that
\* container's request.
C4_RemoveContract ==
    [][last'.op = "RemoveContainer" =>
        LET i == last'.node
            n == nodes[i]
            m == nodes'[i]
            cs == n.containers
            present == \E k \in 1..Len(cs) : cs[k].id = last'.id
        IN  IF ~present
            THEN ~last'.ok /\ nodes' = nodes
            ELSE /\ last'.ok
                 /\ \E k \in 1..Len(cs) :
                        /\ cs[k].id = last'.id
                        /\ \A j \in 1..(k - 1) : cs[j].id # last'.id
                        /\ m.containers = [j \in 1..(Len(cs) - 1) |->
                                            IF j < k THEN cs[j] ELSE cs[j + 1]]
                        /\ m.usedCPU = n.usedCPU - cs[k].cpuRequest
                        /\ m.usedMemory = n.usedMemory - cs[k].memoryRequest
                        /\ m.usedNetwork = n.usedNetwork - cs[k].networkRequest
                        /\ m.usedIO = n.usedIO - cs[k].ioRequest
                 /\ \A j \in 1..Len(nodes) : j # i => nodes'[j] = nodes[j]]_vars

\* a container was removed from a node that held two of that id: the other
\* one is still there
C4_Witness ==
    /\ last.op = "RemoveContainer" /\ last.ok
    /\ \E k \in 1..Len(nodes[last.node].containers) :
            nodes[last.node].containers[k].id = last.id

\* both goroutines are between two calls on the nodes
Quiescent ==
    /\ placer.pc \in {"tick", "done"}
    /\ reaper.pc \in {"tick", "done"}

\* C2: a node serializes the AddContainer and RemoveContainer calls that the
\* two goroutines make on it concurrently: once the calls have completed,
\* each used_r is the sum of the r-requests of the containers listed,
\* 0 <= used_r <= total_r, and the containers listed are the ones placed
\* and not removed, each once.
C2_Serialized ==
    Quiescent =>
        /\ \A i \in 1..Len(nodes) :
            LET n == nodes[i]
                cs == Elems(heap, n.containers)
            IN  /\ \A r \in 1..4 :
                    /\ n[UsedField[r]] = SumField(cs, RequestField[r])
                    /\ 0 <= n[UsedField[r]]
                    /\ n[UsedField[r]] <= n[TotalField[r]]
                /\ \A j, k \in 1..Len(cs) : j # k => cs[j].id # cs[k].id
        /\ UNION {{c.id : c \in {Elems(heap, nodes[i].containers)[k] :
                                    k \in 1..nodes[i].containers.len}} :
                    i \in 1..Len(nodes)}
             = placer.placed \ reaper.removed

\* the last k elements of s, all of s when it has fewer
LastN(s, k) == IF Len(s) <= k THEN s ELSE SubSeq(s, Len(s) - k + 1, Len(s))

\* C11: a successful AddContainer or RemoveContainer on a node appends the
\* utilization the node has right after it to the node's load history, which
\* keeps the 10 most recent samples in the order they were taken; a failed
\* call, and any call on another node, appends nothing.  (A new node has an
\* empty history, so the history is the last min(10, k) samples.)
C11_LoadHistory ==
    [][\A i \in 1..Len(nodes) :
        /\ Len(nodes') = Len(nodes)
        /\ Len(nodes'[i].loadHistory) <= 10
        /\ IF /\ last'.op \in {"AddContainer", "RemoveContainer"}
              /\ last'.ok
              /\ last'.node = i
           THEN nodes'[i].loadHistory =
                    LastN(Append(nodes[i].loadHistory, Utilization(nodes'[i])),
                          10)
           ELSE nodes'[i].loadHistory = nodes[i].loadHistory]_vars

\* a container was removed from a node whose history was full: the history
\* still has 10 samples, the newest one last and unlike the one before it
C11_Witness ==
    /\ last.op = "RemoveContainer" /\ last.ok
    /\ LET h == nodes[last.node].loadHistory
       IN  /\ Len(h) = 10
           /\ h[10] = Utilization(nodes[last.node])
           /\ h[10] # h[9]

\* the containers of a list have pairwise distinct ids
DistinctIDs(cs) ==
    \A j, k \in 1..Len(cs) : cs[j].id = cs[k].id => j = k

\* C21: a call on nodes whose lists hold pairwise distinct ids leaves lists
\* of pairwise distinct ids; an AddContainer of a container whose id is on
\* the node adds no second entry of that id.
C21_NoDuplicateIDs ==
    [][(\A i \in 1..Len(nodes) : DistinctIDs(nodes[i].containers)) =>
        (\A i \in 1..Len(nodes') : DistinctIDs(nodes'[i].containers))]_vars

---------------------------------------------------------------------------
(* Properties of the policies *)

Fits(c) == {j \in 1..Len(nodes) : CanFit(nodes[j], c)}

\* C5: a node returned by Schedule, of any policy, is a node of the list it
\* was given and can fit the container.
C5_FitFilterSound ==
    (last.op = "Schedule" /\ last.ok) =>
        /\ last.node \in 1..Len(nodes)
        /\ CanFit(nodes[last.node], last.container)

\* Adaptive returned a node while another node could not fit the container
C5_Witness ==
    /\ last.op = "Schedule" /\ last.policy = "Adaptive" /\ last.ok
    /\ \E j \in 1..Len(nodes) : ~CanFit(nodes[j], last.container)

\* C6: Schedule, of any policy, fails exactly when no node of the list can
\* fit the container (an empty list included), and returns a node otherwise.
C6_FailsIffNoFit ==
    last.op = "Schedule" =>
        /\ ~last.ok <=> Fits(last.container) = {}
        /\ last.ok => last.node \in 1..Len(nodes)
        /\ ~last.ok => last.node = 0

\* BinPack failed on a list of nodes none of which has room
C6_Witness ==
    /\ last.op = "Schedule" /\ last.policy = "BinPack" /\ ~last.ok
    /\ Len(nodes) > 0

\* C7: the node BinPack returns has a utilization at least that of every
\* node that can fit the container.
C7_BinPackMostUtilized ==
    (last.op = "Schedule" /\ last.policy = "BinPack" /\ last.ok) =>
        \A j \in Fits(last.container) :
            Utilization(nodes[last.node]) >= Utilization(nodes[j])

\* two nodes of equal capacity, the first holds one container, the second
\* none, both can fit: BinPack returned the first
C7_Witness ==
    /\ last.op = "Schedule" /\ last.policy = "BinPack" /\ last.ok
    /\ last.node = 1
    /\ Len(nodes) >= 2
    /\ Len(nodes[1].containers) = 1 /\ Len(nodes[2].containers) = 0
    /\ nodes[1].totalCPU = nodes[2].totalCPU
    /\ nodes[1].totalMemory = nodes[2].totalMemory
    /\ nodes[1].totalNetwork = nodes[2].totalNetwork
    /\ nodes[1].totalIO = nodes[2].totalIO
    /\ {1, 2} \subseteq Fits(last.container)

\* C8: the node Spread returns has a utilization at most that of every node
\* that can fit the container.
C8_SpreadLeastUtilized ==
    (last.op = "Schedule" /\ last.policy = "Spread" /\ last.ok) =>
        \A j \in Fits(last.container) :
            Utilization(nodes[last.node]) <= Utilization(nodes[j])

\* two nodes of equal capacity, the first holds one container, the second
\* none, both can fit: Spread returned the second
C8_Witness ==
    /\ last.op = "Schedule" /\ last.policy = "Spread" /\ last.ok
    /\ last.node = 2
    /\ Len(nodes) >= 2
    /\ Len(nodes[1].containers) = 1 /\ Len(nodes[2].containers) = 0
    /\ nodes[1].totalCPU = nodes[2].totalCPU
    /\ nodes[1].totalMemory = nodes[2].totalMemory
    /\ nodes[1].totalNetwork = nodes[2].totalNetwork
    /\ nodes[1].totalIO = nodes[2].totalIO
    /\ {1, 2} \subseteq Fits(last.container)

\* the rank a policy sorts by: the utilization for BinPack and Spread, the
\* final score for Adaptive, scored with the weights of the phase at t
Rank(policy, s, c, n, t) ==
    IF policy = "Adaptive"
    THEN calculateFitnessScore(updateSchedulerPhase(s, t), c, n, t)
    ELSE Utilization(n)

\* C9: for every policy, and node lists of any length, when several fitting
\* nodes are tied for the best rank, the node returned is the tied node that
\* is earliest in the list: no fitting node before the one returned has its
\* rank.
C9_TieBreakByInputOrder ==
    [][(last'.op = "Schedule" /\ last'.ok) =>
        \A j \in 1..(last'.node - 1) :
            CanFit(nodes[j], last'.container) =>
                Rank(last'.policy, sched, last'.container, nodes[j], now)
                  # Rank(last'.policy, sched, last'.container,
                         nodes[last'.node], now)]_vars

\* C10: a Schedule call, of any policy, successful or not, leaves every node
\* (usage, container list, load history, health score) and the order of the
\* caller's node list as they were.
C10_ScheduleLeavesNodes ==
    [][last'.op = "Schedule" => nodes' = nodes]_vars

\* Spread returned a node that is not the first of the list, and some node
\* holds containers
C10_Witness ==
    /\ last.op = "Schedule" /\ last.policy = "Spread" /\ last.ok
    /\ last.node > 1
    /\ \E j \in 1..Len(nodes) : Len(nodes[j].containers) > 0


---------------------------------------------------------------------------
(* Properties of the Adaptive policy *)

\* the four weights, each over the same denominator
Weights(s) == <<s.cpuWeight, s.memoryWeight, s.networkWeight, s.ioWeight>>

\* C12: after an Adaptive Schedule call, successful or not, in any phase,
\* with or without history for the container's type, each of the four
\* weights is in [0.1, 0.7] and the four sum to at most 1.0.
C12_WeightRange ==
    (last.op = "Schedule" /\ last.policy = "Adaptive") =>
        LET w == Weights(sched)
        IN  /\ \A r \in 1..4 :
                /\ w[r].den > 0
                /\ w[r].den = w[1].den
                /\ 10 * w[r].num >= w[r].den
                /\ 10 * w[r].num <= 7 * w[r].den
            /\ w[1].num + w[2].num + w[3].num + w[4].num <= w[1].den

\* a call for a container that asks for memory only, whose type has that
\* history: the memory weight is 0.7 and the three others 0.1
C12_Witness ==
    /\ last.op = "Schedule" /\ last.policy = "Adaptive" /\ last.ok
    /\ last.container.containerType = "idle"
    /\ 10 * sched.memoryWeight.num = 7 * sched.memoryWeight.den
    /\ 10 * sched.cpuWeight.num = sched.cpuWeight.den


\* the weights of a phase, as the specification lists them
Profile(phase) ==
    CASE phase = 0 -> <<Weight(2, 10), Weight(2, 10), Weight(3, 10), Weight(3, 10)>>
      [] phase = 1 -> <<Weight(25, 100), Weight(25, 100), Weight(25, 100),
                        Weight(25, 100)>>
      [] phase = 2 -> <<Weight(3, 10), Weight(3, 10), Weight(2, 10), Weight(2, 10)>>

\* the weights of s are no phase's: the re-tune step wrote them
Retuned(s) == \A phase \in 0..2 : Weights(s) # Profile(phase)

\* the scheduler with weights w
WithWeights(s, w) ==
    [s EXCEPT !.cpuWeight = w[1], !.memoryWeight = w[2],
              !.networkWeight = w[3], !.ioWeight = w[4]]

\* node k has the highest final score among the nodes that fit c, when the
\* scores are computed with the weights w
BestUnder(w, k, c) ==
    \A j \in 1..Len(nodes) :
        CanFit(nodes[j], c) =>
            calculateFitnessScore(WithWeights(sched, w), c, nodes[k], now)
              >= calculateFitnessScore(WithWeights(sched, w), c, nodes[j], now)

\* C13: the weights that the re-tune step of an Adaptive Schedule call wrote
\* are the weights the next call scores the candidates with: the node that
\* call returns has the highest final score under them.
C13_RetunedWeightsScoreNextCall ==
    [][(/\ last'.op = "Schedule" /\ last'.policy = "Adaptive" /\ last'.ok
        /\ Retuned(sched))
        => BestUnder(Weights(sched), last'.node, last'.container)]_vars


\* the phase at t minutes after the construction of the scheduler, as the
\* specification defines it
PhaseAt(t) == IF t < 1 THEN 0 ELSE IF t > 10 THEN 2 ELSE 1

\* C14: every Adaptive Schedule call scores the candidates with the profile
\* of the phase at the time of the call: (0.2, 0.2, 0.3, 0.3) before minute
\* 1, (0.3, 0.3, 0.2, 0.2) after minute 10, (0.25, 0.25, 0.25, 0.25) from
\* minute 1 to minute 10, both included.  The node returned has the highest
\* final score under that profile.
C14_PhaseProfileScores ==
    [][(last'.op = "Schedule" /\ last'.policy = "Adaptive" /\ last'.ok)
        => BestUnder(Profile(PhaseAt(now - sched.schedulingStartTime)),
                     last'.node, last'.container)]_vars

\* a call at minute 10 on N1 with 3 cores taken and N2 with 7500 IOPS taken:
\* N1 is returned, which the normal profile ranks first and the high-load
\* profile second
C14_Witness ==
    /\ last.op = "Schedule" /\ last.policy = "Adaptive" /\ last.ok
    /\ now = 10
    /\ last.container.containerType = "web"
    /\ nodes[1].usedCPU = 3 /\ nodes[2].usedIO = 7500
    /\ last.node = 1
    /\ ~BestUnder(Profile(2), 1, last.container)
    /\ BestUnder(Profile(1), 1, last.container)


\* C15: two nodes of the same capacity, neither in the scheduler's node
\* history, each with at most one load sample; N1 holds one container of the
\* type of the incoming one, both CPU intensive; N2 is empty; both fit the
\* incoming container.  Then Adaptive Schedule returns N2.
C15_InterferenceScenario ==
    [][(/\ last'.op = "Schedule" /\ last'.policy = "Adaptive"
        /\ Len(nodes) = 2
        /\ \A r \in 1..4 : nodes[1][TotalField[r]] = nodes[2][TotalField[r]]
        /\ {nodes[1].id, nodes[2].id} \cap DOMAIN sched.nodeHistory = {}
        /\ Len(nodes[1].loadHistory) <= 1 /\ Len(nodes[2].loadHistory) <= 1
        /\ Len(nodes[1].containers) = 1 /\ Len(nodes[2].containers) = 0
        /\ nodes[1].containers[1].containerType = last'.container.containerType
        /\ CPUIntensive(nodes[1].containers[1])
        /\ CPUIntensive(last'.container)
        /\ CanFit(nodes[1], last'.container)
        /\ CanFit(nodes[2], last'.container))
        => (last'.ok /\ last'.node = 2)]_vars

\* the scenario with N1 a day older than N2, at minute 1 (the normal phase):
\* the call returned N2, the only node the scheduler has a history of
C15_Witness ==
    /\ last.op = "Schedule" /\ last.policy = "Adaptive" /\ last.ok
    /\ now = 1
    /\ last.node = 2
    /\ DOMAIN sched.nodeHistory = {"N2"}
    /\ nodes[1].creationTime < nodes[2].creationTime
    /\ Len(nodes[1].containers) = 1 /\ Len(nodes[2].containers) = 0
    /\ nodes[1].containers[1].containerType = "batch"
    /\ last.container.containerType = "batch"
    /\ CPUIntensive(nodes[1].containers[1]) /\ CPUIntensive(last.container)
    /\ CanFit(nodes[1], last.container)

---------------------------------------------------------------------------
(* Properties of Benchmark.Run *)

\* the placer is in the select, or has returned
PlacerBetweenTicks == placer.pc \in {"tick", "done"}

\* C16: every container taken from the workload has exactly one event, in
\* the order taken (the container being processed has none yet); an event
\* is a success on a node, a failure with no node, or a failure on a node;
\* and the placer has returned only when the workload is used up or
\* stopChan is closed, so no failure ends its loop.
C16_FailuresAreData ==
    /\ Len(metrics.events) =
        IF PlacerBetweenTicks THEN placer.next ELSE placer.next - 1
    /\ \A k \in 1..Len(metrics.events) :
        LET e == metrics.events[k]
        IN  /\ e.containerID = placer.workload[k].id
            /\ e.scheduleSuccess => e.nodeID # ""
            /\ e.nodeID # "" => \E i \in 1..Len(nodes) : nodes[i].id = e.nodeID
    /\ metrics.containersScheduled + metrics.schedulingFailures =
        Len(metrics.events)
    /\ placer.pc = "done" =>
        \/ placer.next = placer.maxCount
        \/ bench.stopChan = "closed"

\* a failure with no node was recorded, and the next container was placed
C16_Witness ==
    /\ Len(metrics.events) = 2
    /\ ~metrics.events[1].scheduleSuccess
    /\ metrics.events[1].nodeID = ""
    /\ metrics.events[2].scheduleSuccess
    /\ metrics.events[2].containerID \in placer.placed

\* C17: once stopChan is closed the placer takes no further container from
\* the workload, and so starts no further Schedule call for one.
C17_NoDecisionAfterStop ==
    [][bench.stopChan = "closed" => placer'.next = placer.next]_vars

BothReturned == placer.pc = "done" /\ reaper.pc = "done"

\* C18: stopChan is closed only when the duration has elapsed; Run has
\* returned only when both goroutines have; and under fair scheduling a
\* closed stopChan leads to both goroutines having returned, and Run returns.
C18_Termination ==
    /\ [](bench.stopChan = "closed" => bench.elapsed >= RunDuration)
    /\ [](bench.pc = "returned" => BothReturned)
    /\ (bench.stopChan = "closed") ~> BothReturned
    /\ <>(bench.pc = "returned")

\* Run has returned after the duration, the reaper having made a pass
C18_Witness ==
    /\ bench.pc = "returned"
    /\ BothReturned
    /\ bench.elapsed = RunDuration
    /\ reaper.ticks > 0

\* C19: when the reaper leaves a node that held count containers at the
\* start of the pass, it has made count \div 10 + 1 calls of RemoveContainer
\* on it (none when the node was empty).
C19_RemovalAttempts ==
    [][(reaper.pc = "pick" /\ reaper'.pc = "snap") =>
        reaper.i = IF reaper.count = 0 THEN 0
                   ELSE reaper.count \div 10 + 1]_vars

\* C20: an event is appended only by the placer's record step, for the
\* container in hand; when Schedule returned a node, AddContainer on that
\* node has returned by then, the event's success flag is what AddContainer
\* returned (true exactly when the container counts as placed), and the
\* event's node id is that node's id.
C20_RecordAfterAdd ==
    [][metrics'.events # metrics.events =>
        /\ placer.pc = "record"
        /\ Len(metrics'.events) = Len(metrics.events) + 1
        /\ LET e == metrics'.events[Len(metrics'.events)]
           IN  /\ e.containerID = placer.l.c.id
               /\ placer.l.node # 0 =>
                    /\ e.nodeID = nodes[placer.l.node].id
                    /\ e.scheduleSuccess = placer.ok
                    /\ placer.ok <=> placer.l.c.id \in placer.placed]_vars

\* an event of a placement on N1 whose AddContainer returned true
C20_Witness ==
    \E k \in 1..Len(metrics.events) :
        /\ metrics.events[k].scheduleSuccess
        /\ metrics.events[k].nodeID = nodes[1].id
        /\ metrics.events[k].containerID \in placer.placed
        /\ metrics.containersScheduled = 1

\* C22: the generator hands out at most maxCount containers, and at the cap
\* HasNext is false and NextContainer returns nil; the events of the results
\* are one per record call made (one per container taken, the one in hand
\* excepted), so events and successful placements are at most maxCount.
C22_WorkloadBound ==
    /\ placer.next <= placer.maxCount
    /\ placer.next = placer.maxCount =>
        /\ ~HasNext(placer)
        /\ NextContainer(placer) = [g |-> placer, c |-> NoContainer]
    /\ Len(GetResults(metrics).events) =
        IF PlacerBetweenTicks THEN placer.next ELSE placer.next - 1
    /\ Len(GetResults(metrics).events) <= placer.maxCount
    /\ GetResults(metrics).containersScheduled <= placer.maxCount
    /\ Cardinality(placer.placed) <= placer.maxCount

\* the generator is at its cap with containers left to draw, and the
\* placer has returned with every container taken recorded
C22_Witness ==
    /\ placer.next = placer.maxCount
    /\ Len(placer.workload) > placer.maxCount
    /\ placer.pc = "done"
    /\ bench.stopChan = "open"
    /\ Len(GetResults(metrics).events) = placer.maxCount

\* 10 times the final score of node n for container c, in 1/ScoreDen, from
\* its three parts: 6 * base + 2 * interference + 2 * health, the base being
\* the remaining share of each resource weighted by the weights of s
TenFinal(s, c, n, t) ==
    LET w == Weights(s)
        share == <<Ratio(AvailableCPU(n) - c.cpuRequest, n.totalCPU),
                   Ratio(AvailableMemory(n) - c.memoryRequest, n.totalMemory),
                   Ratio(AvailableNetwork(n) - c.networkRequest,
                         n.totalNetwork),
                   Ratio(AvailableIO(n) - c.ioRequest, n.totalIO)>>
        base == SumSeq([r \in 1..4 |-> share[r] * WeightValue(w[r])])
                    * (ScoreDen \div (RatioDen * WeightDen))
    IN  6 * base + 2 * calculateInterferenceScore(c, n)
                 + 2 * calculateNodeHealthScore(s, n, t)

\* C24: the node a successful Adaptive Schedule call returns has a final
\* score, under the weights in force when the candidates are scored (those
\* the phase update of the call has set), at least that of every node that
\* fits the container.
C24_AdaptiveReturnsBest ==
    [][(last'.op = "Schedule" /\ last'.policy = "Adaptive" /\ last'.ok) =>
        LET s == updateSchedulerPhase(sched, now)
        IN  \A j \in 1..Len(nodes) :
                CanFit(nodes[j], last'.container) =>
                    TenFinal(s, last'.container, nodes[last'.node], now)
                        >= TenFinal(s, last'.container, nodes[j], now)]_vars

\* the second of two fitting nodes was returned, the first being the less
\* utilized of the two and the one with the lower interference score
C24_Witness ==
    /\ last.op = "Schedule" /\ last.policy = "Adaptive" /\ last.ok
    /\ last.node = 2
    /\ CanFit(nodes[1], last.container)
    /\ nodes[1].containers # <<>> /\ nodes[2].containers # <<>>
    /\ calculateInterferenceScore(last.container, nodes[1])
            < calculateInterferenceScore(last.container, nodes[2])
    /\ Utilization(nodes[1]) < Utilization(nodes[2])

\* the number of resources in which both e and c are intensive: more than
\* 2 cores, 2048 of memory, 500 of network, 5000 of IO
SharedIntensities(e, c) ==
    Cardinality({r \in 1..4 :
        LET threshold == <<2, 2048, 500, 5000>>
        IN  /\ e[RequestField[r]] > threshold[r]
            /\ c[RequestField[r]] > threshold[r]})

\* 1.0 less 0.1 for every container of es of the type of c and 0.15 for
\* every intensity a container of es shares with c, in 1/ScoreDen
RawInterference(es, c) ==
    Fix(1, 1)
    - Fix(1, 10) * Cardinality({k \in 1..Len(es) :
                        es[k].containerType = c.containerType})
    - Fix(15, 100) * SumSeq([k \in 1..Len(es) |-> SharedIntensities(es[k], c)])

\* C25: for every container and every node the interference score is the
\* larger of 0.1 and that difference; it is between 0.1 and 1.0, and 1.0 on
\* an empty node.
C25_InterferenceScore ==
    \A c \in AdaptiveContainers, i \in 1..Len(nodes) :
        LET score == calculateInterferenceScore(c, nodes[i])
            raw == RawInterference(nodes[i].containers, c)
        IN  /\ score = IF raw > Fix(1, 10) THEN raw ELSE Fix(1, 10)
            /\ Fix(1, 10) <= score /\ score <= Fix(1, 1)
            /\ nodes[i].containers = <<>> => score = Fix(1, 1)

\* a call for a container that fits N1, where the containers on N1 take
\* more than 0.9 off: the score of N1 is 0.1, that of the empty N2 is 1.0
C25_Witness ==
    /\ last.op = "Schedule" /\ last.policy = "Adaptive" /\ last.ok
    /\ CanFit(nodes[1], last.container)
    /\ RawInterference(nodes[1].containers, last.container) < Fix(1, 10)
    /\ calculateInterferenceScore(last.container, nodes[1]) = Fix(1, 10)
    /\ calculateInterferenceScore(last.container, nodes[2]) = Fix(1, 1)

\* map after is map before with value under key, nothing else changed
Overwritten(before, after, key, value) ==
    /\ DOMAIN after = DOMAIN before \cup {key}
    /\ after[key] = value
    /\ \A k \in DOMAIN before \ {key} : after[k] = before[k]

\* C26: a successful Adaptive Schedule call leaves under the container's
\* type its four requests and under the returned node's id that node's
\* health score, the other entries of both histories as they were; a failed
\* call leaves both histories as they were.
C26_HistoryRecording ==
    [][(last'.op = "Schedule" /\ last'.policy = "Adaptive") =>
        IF last'.ok
        THEN LET c == last'.container
                 n == nodes[last'.node]
             IN  /\ Overwritten(sched.containerHistory,
                                sched'.containerHistory, c.containerType,
                                <<c.cpuRequest, c.memoryRequest,
                                  c.networkRequest, c.ioRequest>>)
                 /\ Overwritten(sched.nodeHistory, sched'.nodeHistory,
                                n.id, <<n.healthScore>>)
        ELSE /\ sched'.containerHistory = sched.containerHistory
             /\ sched'.nodeHistory = sched.nodeHistory]_vars

\* a call returned a node whose health score had been set to 0.5, and the
\* histories hold that score and the container's requests
C26_Witness ==
    /\ last.op = "Schedule" /\ last.policy = "Adaptive" /\ last.ok
    /\ nodes[last.node].healthScore = Fix(1, 2)
    /\ sched.nodeHistory[nodes[last.node].id] = <<Fix(1, 2)>>
    /\ sched.containerHistory[last.container.containerType] =
            <<last.container.cpuRequest, last.container.memoryRequest,
              last.container.networkRequest, last.container.ioRequest>>

---------------------------------------------------------------------------
(* Properties of the MetricsCollector *)

\* the events of a log that satisfy a condition, in order
RECURSIVE EventsWhere(_, _, _)
EventsWhere(es, withNode, successOnly) ==
    IF es = <<>> THEN <<>>
    ELSE LET rest == EventsWhere(Tail(es), withNode, successOnly)
             e == Head(es)
         IN  IF (withNode => e.nodeID # "")
                /\ (successOnly => e.scheduleSuccess)
             THEN <<e>> \o rest ELSE rest

\* C23: a record call appends one event that carries the call's arguments
\* (no node: empty node id and utilization 0) and leaves the earlier events
\* in place; successes and failures add up to the number of events; the
\* latency sum is that of the successful events and the average latency is
\* 0 without a success; the running utilization average is the arithmetic
\* mean of the utilizations of the events that have a node.
C23_MetricsAggregates ==
    /\ [](LET es == metrics.events
              ok == EventsWhere(es, FALSE, TRUE)
              on == EventsWhere(es, TRUE, FALSE)
              r == GetResults(metrics)
          IN  /\ r.events = es
              /\ r.containersScheduled = Len(ok)
              /\ r.schedulingFailures = Len(es) - Len(ok)
              /\ metrics.totalLatency =
                    SumField(ok, "schedulingLatency")
              /\ r.averageLatency.num * Len(ok) =
                    SumField(ok, "schedulingLatency") * r.averageLatency.den
              /\ Len(ok) = 0 => r.averageLatency.num = 0
              /\ metrics.utilizationDatapoints = Len(on)
              /\ r.resourceUtilization.den > 0
              /\ r.resourceUtilization.num * Len(on) =
                    SumField(on, "resourceUtilization")
                        * r.resourceUtilization.den
              /\ Len(on) = 0 => r.resourceUtilization.num = 0)
    /\ [][metrics' # metrics =>
            /\ Len(metrics'.events) = Len(metrics.events) + 1
            /\ SubSeq(metrics'.events, 1, Len(metrics.events))
                    = metrics.events
            /\ LET e == metrics'.events[Len(metrics'.events)]
               IN  /\ e.containerID = last'.container.id
                   /\ e.containerType = last'.container.containerType
                   /\ e.scheduleSuccess = last'.ok
                   /\ e.schedulingLatency \in Latencies
                   /\ IF last'.node = 0
                      THEN e.nodeID = "" /\ e.resourceUtilization = 0
                      ELSE /\ e.nodeID = nodes[last'.node].id
                           /\ e.resourceUtilization =
                                Utilization(nodes[last'.node])]_vars

\* a failure without a node, then a success and a failure on nodes of
\* different utilization
C23_Witness ==
    /\ Len(metrics.events) = 3
    /\ metrics.events[1].nodeID = ""
    /\ ~metrics.events[1].scheduleSuccess
    /\ metrics.events[2].nodeID # "" /\ metrics.events[2].scheduleSuccess
    /\ metrics.events[3].nodeID # "" /\ ~metrics.events[3].scheduleSuccess
    /\ metrics.events[2].resourceUtilization
            # metrics.events[3].resourceUtilization
    /\ metrics.utilizationDatapoints = 2

---------------------------------------------------------------------------
(* Properties of removeRandomContainers beside the placer *)

\* C27: the reaper does not panic, and from the choice of an index to the
\* next snapshot the index is within the snapshot it was used on, which is
\* not empty and whose backing array has an element at that index.
C27_ReaperIndexSafe ==
    /\ reaper.pc # "panic"
    /\ reaper.pc \in {"range", "cmp", "load", "store", "low", "high", "shift",
                      "setslice", "sample", "sethist", "trim", "resnap"} =>
        /\ reaper.containers.len > 0
        /\ 0 <= reaper.idx /\ reaper.idx < reaper.containers.len
        /\ reaper.idx < Cap(heap, reaper.containers)
        /\ heap[reaper.containers.ptr][reaper.idx + 1] # NoContainer

\* the second choice of a pass, on the list that the first removal has
\* shortened, is the last index of the snapshot, while the placer is in
\* AddContainer
C27_Witness ==
    /\ reaper.pc = "range"
    /\ reaper.i = 1
    /\ reaper.removed # {}
    /\ reaper.idx = reaper.containers.len - 1
    /\ placer.pc \in {"fit", "load", "store", "slice", "append", "setslice",
                      "sample", "sethist", "trim"}

---------------------------------------------------------------------------
(* Properties of Benchmark.Run with atomic node operations *)

\* C28: with node operations that execute atomically, AddContainer on the
\* node that Schedule returned never returns false: the placer never has a
\* node and a failure to record, and every failure event recorded carries no
\* node.
C28_AddNeverRejected ==
    /\ ~(placer.pc = "record" /\ placer.l.node # 0 /\ ~placer.ok)
    /\ \A k \in 1..Len(metrics.events) :
        ~metrics.events[k].scheduleSuccess => metrics.events[k].nodeID = ""

\* AddContainer returned true on a node from which the reaper, still in its
\* pass over that node, had removed a container in the call before: the last
\* two load samples of the node are the removal's and the add's
C28_Witness ==
    /\ placer.pc = "record" /\ placer.ok /\ placer.l.node # 0
    /\ reaper.pc = "resnap" /\ reaper.l.node = placer.l.node
    /\ reaper.removed # {}
    /\ LET n == nodes[placer.l.node]
           h == n.loadHistory
       IN  /\ Len(h) >= 3
           /\ h[Len(h) - 2] > h[Len(h) - 1]
           /\ h[Len(h) - 1] < h[Len(h)]
           /\ h[Len(h)] = Utilization(n)
    /\ \E k \in 1..Len(metrics.events) : ~metrics.events[k].scheduleSuccess

---------------------------------------------------------------------------
(* Properties of cleanupContainers ticking on *)

\* the number of containers on all nodes
RECURSIVE Total(_)
Total(ns) ==
    IF ns = <<>> THEN 0 ELSE Head(ns).containers.len + Total(Tail(ns))

AllEmpty == \A i \in 1..Len(nodes) : nodes[i].containers.len = 0

\* C29: with the placer returned, (1) the pass over a node that held
\* containers when the reaper took its snapshot leaves it with fewer, and no
\* step adds a container; (2) between two ticks the nodes hold at most the
\* initial number of containers less the number of ticks made, or none;
\* (3) under fair scheduling of the goroutine all nodes become empty and
\* stay empty.
C29_ReaperDrains ==
    /\ [][/\ (reaper.pc = "pick" /\ reaper'.pc = "snap" /\ reaper.count > 0)
               => nodes'[reaper.l.node].containers.len < reaper.count
          /\ \A i \in 1..Len(nodes) :
               nodes'[i].containers.len <= nodes[i].containers.len]_vars
    /\ [](reaper.pc = "tick" =>
            Total(nodes) <= Max(0, Total(DrainNodes) - reaper.ticks))
    /\ <>[]AllEmpty

\* the third tick has emptied the nodes, the containers of one id included
C29_Witness ==
    /\ reaper.pc = "tick" /\ reaper.ticks = 3
    /\ placer.pc = "done"
    /\ AllEmpty
    /\ reaper.removed = {"r1", "r2", "r3", "d1"}

===========================================================================
